---- MODULE Spec2Model ----
(***************************************************************************)
(* Workflow synthesis engine of Biomni_HITS: the saver's three save modes, *)
(* its LLM retry loop and forced inclusion, the validate/repair loop, and  *)
(* the sandbox executor's interrupt protocol.                              *)
(*                                                                         *)
(* Abstractions.  A code text is a record of the properties the control    *)
(* flow reads: whether it is empty, the basenames of its write sites       *)
(* (CodeExtractor.extract_output_files), whether the AST pass would find   *)
(* an alias/import mismatch in it, and the blocks spliced into it.  The    *)
(* LLM, the validator's child process and the file system are external:    *)
(* their answers are drawn with \E where the code receives them.           *)
(*                                                                         *)
(* Spec is the saver, ExecSpec the executor, ValidatorSpec one             *)
(* WorkflowValidator with its temporary workspace, FilterSpec the          *)
(* CodeFilter as a function of its argument, and JournalSpec two           *)
(* WorkflowTracker objects on one execute_blocks directory.  In Spec the   *)
(* journal is the list of the blocks written, every write succeeding;      *)
(* JournalSpec has the files, their names and the clock.                   *)
(* FixSpec, DepSpec, ParamSpec and RunSpec take one function each as a     *)
(* function of its argument: the AST-driven import fixes, the variable-    *)
(* dependency completion of simple mode, _parameterize_file_paths, and     *)
(* validate_workflow seen through its files.  ServiceSpec is               *)
(* WorkflowService.save_workflow_from_execute_blocks on a written journal. *)
(***************************************************************************)
EXTENDS Integers, Sequences, FiniteSets, TLC

(* ------------------------------------------------------------------ *)
(* Bounds and program constants                                         *)
(* ------------------------------------------------------------------ *)
MaxBlocks == 2
MaxFix == 1
MaxRuns == 2
MaxInterrupts == 2
MaxFilterLen == 2
MaxValidations == 3
MaxTicks == 2
MaxTracks == 2
MaxDamaged == 1
MaxForeign == 1
MaxLines == 4
MaxFailed == 1
MaxDeps == 1
MaxStatements == 3

DEFAULT_MAX_RETRIES == 5
DEFAULT_MAX_FIX_ATTEMPTS == 2
RESULT_TRUNCATE_LENGTH == 10000

(* Output paths a block may produce, and their basenames (Path(p).name). *)
Paths == {"/work/a.csv", "/work/b.png"}

BaseName(p) ==
    CASE p = "/work/a.csv" -> "a.csv"
      [] p = "/work/b.png" -> "b.png"
      [] OTHER -> p

Names == {BaseName(p) : p \in Paths}

NoneValue == "None"
TmpPath == "workflows/workflow_x.tmp.py"
FinalPath == "workflows/workflow_x.py"
NotebookPath == "workflows/workflow_x.ipynb"

(* str.endswith('.tmp.py') on the artifact names of the model. *)
EndsWithTmp(p) == p = TmpPath

VARIABLES
    (* WorkflowTracker *)
    execution_history_mem,      \* tracker.execution_history
    journal,                    \* execute_blocks/*.json of this session
    all_output_files,           \* tracker.all_output_files
    (* WorkflowSaver construction and the call's arguments *)
    validator,                  \* self.validator is configured
    pc,
    save_mode,
    max_fix_attempts,
    (* _save_workflow_llm locals *)
    filtered_executions,
    attempt,
    workflow_code,
    missing_outputs,
    all_missing_outputs_history,
    (* save_and_validate_workflow locals *)
    temp_workflow_path,
    expected_outputs,
    current_workflow,
    fix_attempt,
    result,
    (* the workflows directory *)
    files,
    (* observations (history variables): of the call, and of the       *)
    (* _save_workflow_llm retry loop                                    *)
    obs,
    loopObs,
    (* E2B executor *)
    is_executing,
    interrupt_event,
    runner,                     \* the thread inside run_python
    intr,                       \* the thread inside interrupt()
    (* one CodeFilter.filter_executions call *)
    filter_input,               \* its executions argument
    filter_output,              \* its return value
    (* WorkflowValidator *)
    temp_dir,                   \* work_dir/workflow_validation_temp on disk
    validation,                 \* the validate_workflow call in progress
    validation_log,             \* the warnings printed so far
    (* WorkflowTracker objects that share one execute_blocks directory *)
    now,                        \* the wall clock, in ticks
    trackers,                   \* the fields of each WorkflowTracker
    execute_blocks_dir,         \* file name -> content of the .json file
    loaded,                     \* the load_execute_blocks_from_files call made
    (* one application of the AST-driven import fixes *)
    fix_code,                   \* the lines of the code argument
    fix_result,                 \* the applier, the fixes detected, the lines returned
    (* one run of the variable-dependency completion of simple mode *)
    simple_input,               \* the successful and the failed executions
    completion,                 \* the locals of _save_workflow_simple, steps 1 to 5
    (* one call of _parameterize_file_paths *)
    param_code,                 \* the read and write sites of the code argument
    param_result,               \* the argparse block and the rewritten sites
    (* one validation seen through its files *)
    run_files,                  \* the inputs, the expected outputs, what the script wrote
    run_verdict,                \* the outputs collected and the result returned
    (* WorkflowService *)
    service                     \* the save_workflow_from_execute_blocks call made

trackerVars == <<execution_history_mem, journal, all_output_files>>
callVars == <<validator, save_mode, max_fix_attempts>>
llmVars == <<filtered_executions, attempt, workflow_code, missing_outputs,
             all_missing_outputs_history>>
valVars == <<temp_workflow_path, expected_outputs, current_workflow, fix_attempt>>
execVars == <<is_executing, interrupt_event, runner, intr>>
obsVars == <<obs, loopObs>>
filterVars == <<filter_input, filter_output>>
validatorVars == <<temp_dir, validation, validation_log>>
journalVars == <<now, trackers, execute_blocks_dir, loaded>>
fixVars == <<fix_code, fix_result>>
depVars == <<simple_input, completion>>
paramVars == <<param_code, param_result>>
runVars == <<run_files, run_verdict>>
svcVars == <<service>>
analysisVars == <<fixVars, depVars, paramVars, runVars, svcVars>>
restVars == <<filterVars, validatorVars, journalVars, analysisVars>>
saverVars == <<trackerVars, callVars, llmVars, valVars, pc, result, files, obsVars>>
vars == <<saverVars, execVars, restVars>>

(* ------------------------------------------------------------------ *)
(* Execution entries                                                    *)
(* ------------------------------------------------------------------ *)
(* One recorded block: success flag, output paths observed for it, and  *)
(* whether its non-blank code carries a data-processing keyword.  The    *)
(* keyword flag is varied only where filter_executions reads it: on a    *)
(* successful block without output files.                               *)
(* The code of a block is further described by: whether it is blank,    *)
(* and whether it carries an exploration or a visualization keyword.    *)
(* The blocks of a saver session are non-blank and carry neither.       *)
BlockInputs ==
    {e \in [success : BOOLEAN, output_files : {{}} \cup {{p} : p \in Paths},
            proc : BOOLEAN, blank : {FALSE}, exploration : {FALSE},
            visualization : {FALSE}] :
        (e.output_files # {} \/ ~e.success) => e.proc}

(* The blocks a filter_executions call is checked on. *)
FilterInputs ==
    [success : BOOLEAN, output_files : {{}, {"/work/a.csv"}},
     proc : BOOLEAN, blank : BOOLEAN, exploration : BOOLEAN,
     visualization : BOOLEAN]

(* CodeFilter.is_data_processing_code on the keyword flags of a block. *)
is_data_processing_code(e) ==
    IF e.blank THEN FALSE
    ELSE IF e.visualization /\ ~e.proc THEN FALSE
    ELSE IF e.exploration /\ ~e.proc THEN FALSE
    ELSE e.proc

(* Faulty variant: the output files of a block do not count. *)
IsKeptByKeywordsOnly(e) ==
    e.success /\ ~e.blank /\ is_data_processing_code(e)

(* CodeFilter.filter_executions: successful blocks with non-blank code   *)
(* that have output files or data-processing keywords.                  *)
IsKept(e) ==
    /\ e.success
    /\ ~e.blank
    /\ (e.output_files # {} \/ is_data_processing_code(e))

filter_executions(executions) == SelectSeq(executions, IsKept)

(* 0-based positions (Python's enumerate) of the entries producing name f. *)
IndicesOf(executions, f) ==
    LET Produces(i) == f \in {BaseName(p) : p \in executions[i + 1].output_files}
    IN  SelectSeq([k \in 1..Len(executions) |-> k - 1], Produces)

(* WorkflowPreprocessor._map_output_files: basename -> 0-based indices. *)
map_output_files(executions) ==
    LET produced == UNION {{BaseName(p) : p \in executions[i].output_files} :
                           i \in 1..Len(executions)}
    IN  [f \in produced |-> IndicesOf(executions, f)]

(* ------------------------------------------------------------------ *)
(* Code texts                                                           *)
(* ------------------------------------------------------------------ *)
EmptyCode == [empty |-> TRUE, outs |-> {}, alias |-> FALSE, spliced |-> {}]

(* What the LLM may answer to an extraction prompt: nothing (also the    *)
(* answer of extract_workflow_code when invoke() raises), or a script    *)
(* with any set of write sites, with or without alias mismatches.        *)
LLMCodes ==
    {EmptyCode} \cup
    {[empty |-> FALSE, outs |-> o, alias |-> a, spliced |-> {}] :
        o \in SUBSET Names, a \in BOOLEAN}

(* CodeExtractor.extract_output_files: basenames of the write sites. *)
extract_output_files(code) == code.outs

(* _apply_rule_based_fixes: rewrites the import lines when the AST pass  *)
(* reports mismatches, returns the text untouched otherwise.             *)
apply_rule_based_fixes(code) ==
    IF code.alias THEN [code EXCEPT !.alias = FALSE] ELSE code

(* WorkflowPostprocessor.postprocess: adds expected imports and rewrites *)
(* aliases; write sites are not touched.                                 *)
postprocess(code) == [code EXCEPT !.alias = FALSE]

(* Faulty variant: only the last attempt's missing files are passed on. *)
last_missing_only(missing, hist) == missing

(* cumulative_missing of _save_workflow_llm (line 269). *)
cumulative_missing(missing, hist) ==
    missing \cup UNION {hist[i] : i \in 1..Len(hist)}

(* First index of the sequence that _enforce_output_file_inclusion       *)
(* accepts: it reads every index as 1-based (idx >= 1, idx <= len) and    *)
(* takes executions[idx - 1]; 0 when none is accepted.                   *)
RECURSIVE first_usable(_, _)
first_usable(indices, n) ==
    IF indices = <<>> THEN 0
    ELSE IF Head(indices) >= 1 /\ Head(indices) <= n THEN Head(indices)
    ELSE first_usable(Tail(indices), n)

(* The fallback search by filename (enumerate(executions, 1)). *)
fallback_indices(executions, f) ==
    LET hits == {i \in 1..Len(executions) :
                    f \in {BaseName(p) : p \in executions[i].output_files}}
    IN  IF hits = {} THEN <<>>
        ELSE <<CHOOSE i \in hits : \A j \in hits : i <= j>>

(* The execution index used for missing file f.  The mapping's indices  *)
(* come from map_output_files.                                          *)
exec_index_for(mapping, executions, f) ==
    LET fromMap == IF f \in DOMAIN mapping THEN mapping[f] ELSE <<>>
        indices == IF fromMap = <<>> THEN fallback_indices(executions, f)
                   ELSE fromMap
    IN  first_usable(indices, Len(executions))

(* _enforce_output_file_inclusion: the blocks added to the code, each    *)
(* named by the missing file and the (1-based) position in executions of *)
(* the entry whose code is spliced in.                                   *)
enforce_output_file_inclusion(code, missing, executions, mapping) ==
    LET blocks == {[file |-> f,
                    entry |-> exec_index_for(mapping, executions, f)] :
                   f \in {g \in missing :
                            exec_index_for(mapping, executions, g) # 0}}
    IN  [code EXCEPT !.spliced = blocks]

(* Faulty variants: the empty answer is not recognised; the loop never   *)
(* sees full coverage.                                                  *)
code_never_empty(code) == FALSE

outputs_never_present(missing) == FALSE

(* The loop's exits and guards (lines 280, 306, 318). *)
is_empty_code(code) == code.empty

all_outputs_present(missing) == missing = {}

retries_left(a) == a < DEFAULT_MAX_RETRIES - 1

(* Faulty variant: the LLM path writes under the final name. *)
llm_temp_flag_off == FALSE

(* The temp flag _save_workflow_llm passes to _save_workflow_file (381). *)
llm_temp_flag == TRUE

(* The temp flag _save_workflow_simple passes (2366). *)
simple_temp_flag == FALSE

(* Faulty variants: an empty expectation is validated anyway; simple     *)
(* mode enters the LLM repair loop; the repair loop runs once more.      *)
expected_never_empty(expected) == FALSE

never_skips_llm_repair(mode) == FALSE

fix_attempts_left_inclusive(a, maxAttempts) == a <= maxAttempts

(* Guards of save_and_validate_workflow: no validator or notebook mode   *)
(* (1187, 1200), no expected outputs (1232), simple mode (1346), and the *)
(* range of the LLM repair loop (1360).                                 *)
skips_validation(hasValidator, mode) == ~hasValidator \/ mode = "notebook"

no_expected_outputs(expected) == expected = {}

skips_llm_repair(mode) == mode = "simple"

fix_attempts_left(a, maxAttempts) == a < maxAttempts

(* _save_workflow_file's name: temp flag decides the suffix. *)
workflow_file_name(temp) == IF temp THEN TmpPath ELSE FinalPath

(* Faulty variant: the rename keeps the temporary name. *)
final_name_kept(p) == p

(* final_filename of _finalize_workflow_file: name.replace('.tmp.py', '.py') *)
final_name(p) == IF EndsWithTmp(p) THEN FinalPath ELSE p

(* Faulty variant: the journal is preferred to the in-memory history. *)
file_history_first(in_memory_history, file_history) ==
    IF file_history # <<>> THEN file_history ELSE in_memory_history

(* save_workflow's choice of history (lines 133-152). *)
choose_history(in_memory_history, file_history) ==
    IF in_memory_history # <<>> THEN in_memory_history
    ELSE IF file_history # <<>> THEN file_history
    ELSE <<>>

(* Argument normalisation of save_and_validate_workflow (1174-1178). *)
normalize_mode(m) == IF m \in {"llm", "simple", "notebook"} THEN m ELSE "notebook"

normalize_max_fix(n) == IF n < 0 THEN DEFAULT_MAX_FIX_ATTEMPTS ELSE n

(* -------------------------------------------------------------------- *)
(* The execute_blocks journal.  A string is the sequence of the ranks   *)
(* of its characters in Alphabet, which lists the characters that occur *)
(* in ASCII order, so that sequences compare as Python compares str.    *)
(* -------------------------------------------------------------------- *)
Alphabet ==
    <<"-", ".", "0", "1", "2", "3", "4", "5", "6", "7", "8", "9", ":", "T",
      "_", "c", "e", "j", "n", "o", "s", "t", "u", "x">>

Ord(c) == CHOOSE i \in DOMAIN Alphabet : Alphabet[i] = c
Encode(chars) == [i \in DOMAIN chars |-> Ord(chars[i])]
DigitChars == {Ord(c) : c \in {"0", "1", "2", "3", "4", "5", "6", "7", "8", "9"}}
DigitOrd(d) == Ord("0") + d

(* str < str and str >= str of Python: lexicographic, a proper prefix   *)
(* is smaller.                                                          *)
RECURSIVE StrLess(_, _)
StrLess(a, b) ==
    IF b = <<>> THEN FALSE
    ELSE IF a = <<>> THEN TRUE
    ELSE IF Head(a) # Head(b) THEN Head(a) < Head(b)
    ELSE StrLess(Tail(a), Tail(b))

StrGeq(a, b) == ~StrLess(a, b)

(* Zero-padded decimal of width digits, as %S, %f and {index:04d} give. *)
RECURSIVE Digits(_, _)
Digits(n, width) ==
    IF width = 0 THEN <<>>
    ELSE Append(Digits(n \div 10, width - 1), DigitOrd(n % 10))

(* The clock: TicksPerSecond ticks to a second.  All modelled instants  *)
(* lie within one minute of one day.                                    *)
TicksPerSecond == 2
MicrosPerTick == 500000
SecondOf(t) == t \div TicksPerSecond
MicrosecondOf(t) == (t % TicksPerSecond) * MicrosPerTick

(* strftime("%Y%m%d_%H%M%S") split at '_', and the %f field. *)
StrfDate == Encode(<<"2", "0", "2", "5", "1", "2", "2", "2">>)
StrfTime(t) == Encode(<<"1", "7", "0", "6">>) \o Digits(SecondOf(t), 2)
StrfMicro(t) == Digits(MicrosecondOf(t), 6)

(* datetime.isoformat(): the fraction is omitted when it is zero. *)
isoformat(t) ==
    Encode(<<"2", "0", "2", "5", "-", "1", "2", "-", "2", "2", "T",
             "1", "7", ":", "0", "6", ":">>)
        \o Digits(SecondOf(t), 2)
        \o (IF MicrosecondOf(t) = 0 THEN <<>>
            ELSE Encode(<<".">>) \o StrfMicro(t))

(* A file name is kept as the list of its '_'-separated fields between  *)
(* "execute_" and ".json".                                              *)
RECURSIVE JoinParts(_)
JoinParts(parts) ==
    IF parts = <<>> THEN <<>>
    ELSE IF Len(parts) = 1 THEN parts[1]
    ELSE parts[1] \o Encode(<<"_">>) \o JoinParts(Tail(parts))

FileName(parts) ==
    Encode(<<"e", "x", "e", "c", "u", "t", "e", "_">>) \o JoinParts(parts)
        \o Encode(<<".", "j", "s", "o", "n">>)

(* _save_execute_block: execute_{%Y%m%d_%H%M%S_%f}_{index:04d}.json *)
block_file_name(t, index) ==
    <<StrfDate, StrfTime(t), StrfMicro(t), Digits(index, 4)>>

(* Names of files that other programs or people put in the directory:   *)
(* execute_notes.json, and a copy named with a dashed date and the time *)
(* of the last modelled second, execute_2025-12-22_1706SS.json.         *)
DashedDate == Encode(<<"2", "0", "2", "5", "-", "1", "2", "-", "2", "2">>)
ForeignNames ==
    {<<Encode(<<"n", "o", "t", "e", "s">>)>>,
     <<DashedDate, StrfTime(MaxTicks)>>}

(* Whether the first two fields of a name read as %Y%m%d and %H%M%S. *)
AllDigits(str, width) ==
    Len(str) = width /\ \A k \in DOMAIN str : str[k] \in DigitChars

HasParseableTimestamp(parts) ==
    /\ Len(parts) >= 2
    /\ AllDigits(parts[1], 8)
    /\ AllDigits(parts[2], 6)

(* _is_file_from_current_session: with two or more fields the first two *)
(* are joined and compared as strings with the session start string;    *)
(* with fewer the file is included.                                     *)
is_file_from_current_session(parts, session_start_str) ==
    IF Len(parts) >= 2
    THEN StrGeq(parts[1] \o Encode(<<"_">>) \o parts[2], session_start_str)
    ELSE TRUE

session_start_str(t) == StrfDate \o Encode(<<"_">>) \o StrfTime(t)

(* sorted(glob("execute_*.json")): ascending by file name. *)
RECURSIVE SortedNames(_)
SortedNames(names) ==
    IF names = {} THEN <<>>
    ELSE LET first == CHOOSE n \in names :
                          \A m \in names \ {n} : StrLess(FileName(n), FileName(m))
         IN  <<first>> \o SortedNames(names \ {first})

(* JSON null where a string is expected; it is no string. *)
JsonNull == <<0>>

(* list.sort(key=timestamp): stable, ascending. *)
RECURSIVE InsertByTimestamp(_, _)
InsertByTimestamp(sorted, x) ==
    IF sorted = <<>> THEN <<x>>
    ELSE LET last == sorted[Len(sorted)]
         IN  IF StrLess(x.timestamp, last.timestamp)
             THEN Append(InsertByTimestamp(SubSeq(sorted, 1, Len(sorted) - 1), x),
                         last)
             ELSE Append(sorted, x)

RECURSIVE sort_by_timestamp(_)
sort_by_timestamp(blocks) ==
    IF blocks = <<>> THEN <<>>
    ELSE InsertByTimestamp(
             sort_by_timestamp(SubSeq(blocks, 1, Len(blocks) - 1)),
             blocks[Len(blocks)])

(* Faulty variant: the blocks stay in file-name order. *)
unsorted(blocks) == blocks

(* The sort compares timestamps as soon as there are two blocks, and    *)
(* comparing None with anything raises TypeError.                       *)
sort_raises(blocks) ==
    /\ Len(blocks) >= 2
    /\ \E k \in 1..Len(blocks) : blocks[k].timestamp = JsonNull

(* The order load_execute_blocks_from_files gives its result. *)
restore_order(blocks) == sort_by_timestamp(blocks)

(* result[:RESULT_TRUNCATE_LENGTH], by its length. *)
truncate_result(result_length) ==
    IF result_length > RESULT_TRUNCATE_LENGTH THEN RESULT_TRUNCATE_LENGTH
    ELSE result_length

persisted(entry) ==
    [entry EXCEPT !.result_length = truncate_result(entry.result_length)]

ResultLengths == {RESULT_TRUNCATE_LENGTH + 1}

(* Faulty variant: the new entry goes to the front. *)
prepend_entry(history, entry) == <<entry>> \o history

(* self.execution_history.append(execution_entry) *)
append_entry(history, entry) == Append(history, entry)

TrackerIds == {1, 2}

NoTracker ==
    [made |-> FALSE, session_start_time |-> 0, execution_history |-> <<>>,
     tracked |-> 0]

NoLoad == [outcome |-> "none", by |-> 0, filter_by_session |-> FALSE,
           blocks |-> <<>>, files |-> {}]

(* The content of a .json file: a block as json.dump wrote it, or the   *)
(* beginning of one (not valid JSON).  written is the instant of the    *)
(* write.                                                               *)
NoEntry == [owner |-> 0, n |-> 0, timestamp |-> <<>>, result_length |-> 0]
BlockFile(entry, t) == [kind |-> "block", entry |-> entry, written |-> t]
PartialFile(t) == [kind |-> "partial", entry |-> NoEntry, written |-> t]

WriteFile(dir, name, content) ==
    [n \in DOMAIN dir \cup {name} |-> IF n = name THEN content ELSE dir[n]]

EmptyDir == [n \in {} |-> NoEntry]

(* -------------------------------------------------------------------- *)
(* AST-driven import fixes (_detect_alias_mismatches_ast and its two    *)
(* appliers) on code made of the lines below.  A fix is a pair          *)
(* <<correct_import, line index>>, the index counted from 0 as in the   *)
(* source and -1 for an import to add.  None of the lines is indented,  *)
(* a comment, or a use of one of the mapped class names.                *)
(* -------------------------------------------------------------------- *)
ImportLines ==
    {"import glob", "import pandas as pd", "import numpy as pd",
     "from datetime import datetime", "import datetime"}

StatementLines ==
    {"x = 1", "df = pd.read_csv(glob.glob(p)[0])", "t = datetime.now()"}

CodeLines == ImportLines \cup StatementLines \cup {""}

(* line.strip().startswith(('import ', 'from ')) *)
IsImportLine(line) == line \in ImportLines
(* stripped and not stripped.startswith('#') *)
IsCodeLine(line) == line # ""

(* The name an import binds and the module or object it binds it to     *)
(* (alias_name and module / full_module of the AST walk).               *)
ImportAlias(line) ==
    CASE line = "import glob" -> "glob"
      [] line = "import pandas as pd" -> "pd"
      [] line = "import numpy as pd" -> "pd"
      [] line = "from datetime import datetime" -> "datetime"
      [] line = "import datetime" -> "datetime"

ImportModule(line) ==
    CASE line = "import glob" -> "glob"
      [] line = "import pandas as pd" -> "pandas"
      [] line = "import numpy as pd" -> "numpy"
      [] line = "from datetime import datetime" -> "datetime.datetime"
      [] line = "import datetime" -> "datetime"

(* Names that occur as the base of an attribute access (ast.Attribute   *)
(* whose value is an ast.Name).                                         *)
UsedNames(line) ==
    CASE line = "df = pd.read_csv(glob.glob(p)[0])" -> {"pd", "glob"}
      [] line = "t = datetime.now()" -> {"datetime"}
      [] OTHER -> {}

(* What the name has to be bound to for the statement to run. *)
NeededModule(name) ==
    CASE name = "pd" -> "pandas"
      [] name = "glob" -> "glob"
      [] name = "datetime" -> "datetime.datetime"

(* module_mappings and alias_mappings, for the names above. *)
module_mappings == [glob |-> "import glob", datetime |-> "import datetime"]
alias_mappings ==
    [pd |-> [module |-> "pandas", correct_import |-> "import pandas as pd"]]

used_modules(lines) == UNION {UsedNames(lines[k]) : k \in DOMAIN lines}

(* imports_by_alias[name]: the import walked last wins; line index from *)
(* 0, and -1 when no import binds the name.                             *)
ImportIndexOf(lines, name) ==
    LET S == {k \in DOMAIN lines :
                 IsImportLine(lines[k]) /\ ImportAlias(lines[k]) = name}
    IN  IF S = {} THEN -1 ELSE (CHOOSE k \in S : \A j \in S : j <= k) - 1

ImportedAs(lines, name) ==
    IF ImportIndexOf(lines, name) = -1 THEN NoneValue
    ELSE ImportModule(lines[ImportIndexOf(lines, name) + 1])

(* imports_by_module *)
ModuleImported(lines, module) ==
    \E k \in DOMAIN lines :
        IsImportLine(lines[k]) /\ ImportModule(lines[k]) = module

(* Step 4: a mapped module used directly. *)
module_fix(lines, name) ==
    IF ImportIndexOf(lines, name) = -1 /\ ~ModuleImported(lines, name)
    THEN <<<<module_mappings[name], -1>>>>
    ELSE IF ImportIndexOf(lines, name) # -1 /\ ImportedAs(lines, name) # name
    THEN <<<<module_mappings[name], ImportIndexOf(lines, name)>>>>
    ELSE <<>>

(* "a in b" of two of the module names above. *)
IsSubstring(a, b) == a = b \/ (a = "datetime" /\ b = "datetime.datetime")

(* Step 5: a mapped alias. *)
alias_fix(lines, name) ==
    LET expected == alias_mappings[name].module
        correct == alias_mappings[name].correct_import
    IN  IF ImportIndexOf(lines, name) # -1
        THEN IF /\ ~IsSubstring(expected, ImportedAs(lines, name))
                /\ ~IsSubstring(ImportedAs(lines, name), expected)
             THEN <<<<correct, ImportIndexOf(lines, name)>>>>
             ELSE <<>>
        ELSE <<<<correct, -1>>>>

RECURSIVE Concat(_)
Concat(seqs) == IF seqs = <<>> THEN <<>> ELSE Head(seqs) \o Concat(Tail(seqs))

Orderings(S) ==
    {order \in [1..Cardinality(S) -> S] :
        \A a, b \in DOMAIN order : a # b => order[a] # order[b]}

(* _detect_alias_mismatches_ast: the fixes of step 4 in the iteration   *)
(* order of the set used_modules, which is not fixed, then those of     *)
(* step 5.  The result is the set of lists the call may return.         *)
detect_alias_mismatches_ast(lines) ==
    LET modules == used_modules(lines) \cap DOMAIN module_mappings
        aliases == used_modules(lines) \cap DOMAIN alias_mappings
        step5 == IF "pd" \in aliases THEN alias_fix(lines, "pd") ELSE <<>>
    IN  {Concat([k \in DOMAIN order |-> module_fix(lines, order[k])]) \o step5 :
            order \in Orderings(modules)}

ReplaceLine(lines, idx, line) == [lines EXCEPT ![idx + 1] = line]
InsertLine(lines, pos, line) ==
    SubSeq(lines, 1, pos) \o <<line>> \o SubSeq(lines, pos + 1, Len(lines))

(* _apply_rule_based_fixes: import_section_end is the index of the      *)
(* first code line after the first import, the index of the first       *)
(* import when no code follows it, len(lines) when there is no import.  *)
import_section_end(lines) ==
    LET imports == {k \in DOMAIN lines : IsImportLine(lines[k])}
    IN  IF imports = {} THEN Len(lines)
        ELSE LET first == CHOOSE k \in imports : \A j \in imports : k <= j
                 after == {k \in DOMAIN lines :
                              /\ k > first
                              /\ ~IsImportLine(lines[k])
                              /\ IsCodeLine(lines[k])}
             IN  IF after = {} THEN first - 1
                 ELSE (CHOOSE k \in after : \A j \in after : k <= j) - 1

(* The position after the last import line below section_end. *)
rule_insert_pos(lines, section_end) ==
    LET S == {k \in 1..section_end : k <= Len(lines) /\ IsImportLine(lines[k])}
    IN  IF S = {} THEN section_end ELSE CHOOSE k \in S : \A j \in S : j <= k

(* The fixes are applied in the order of the list. *)
RECURSIVE apply_fixes_in_list_order(_, _, _)
apply_fixes_in_list_order(lines, section_end, fixes) ==
    IF fixes = <<>> THEN lines
    ELSE LET fix == Head(fixes)
         IN  IF fix[2] >= 0
             THEN apply_fixes_in_list_order(
                      ReplaceLine(lines, fix[2], fix[1]), section_end,
                      Tail(fixes))
             ELSE apply_fixes_in_list_order(
                      InsertLine(lines, rule_insert_pos(lines, section_end),
                                 fix[1]),
                      section_end + 1, Tail(fixes))

apply_rule_based_fixes_lines(lines, fixes) ==
    IF fixes = <<>> THEN lines
    ELSE apply_fixes_in_list_order(lines, import_section_end(lines), fixes)

(* sorted(alias_fixes, key=line index, reverse=True): stable. *)
RECURSIVE InsertDescending(_, _)
InsertDescending(sorted, fix) ==
    IF sorted = <<>> THEN <<fix>>
    ELSE LET last == sorted[Len(sorted)]
         IN  IF fix[2] > last[2]
             THEN Append(InsertDescending(SubSeq(sorted, 1, Len(sorted) - 1),
                                          fix), last)
             ELSE Append(sorted, fix)

RECURSIVE sorted_fixes(_)
sorted_fixes(fixes) ==
    IF fixes = <<>> THEN <<>>
    ELSE InsertDescending(sorted_fixes(SubSeq(fixes, 1, Len(fixes) - 1)),
                          fixes[Len(fixes)])

(* _fix_import_aliases_simple: the position after the last import of    *)
(* the first run of imports, blank lines allowed inside it.             *)
RECURSIVE scan_insert_pos(_, _, _)
scan_insert_pos(lines, i, pos) ==
    IF i > Len(lines) THEN pos
    ELSE IF IsImportLine(lines[i]) THEN scan_insert_pos(lines, i + 1, i)
    ELSE IF pos > 0 /\ IsCodeLine(lines[i]) THEN pos
    ELSE scan_insert_pos(lines, i + 1, pos)

import_insert_pos(lines) == scan_insert_pos(lines, 1, 0)

RECURSIVE apply_sorted_fixes(_, _)
apply_sorted_fixes(lines, fixes) ==
    IF fixes = <<>> THEN lines
    ELSE LET fix == Head(fixes)
         IN  IF fix[2] >= 0
             THEN apply_sorted_fixes(
                      IF fix[2] < Len(lines)
                      THEN ReplaceLine(lines, fix[2], fix[1]) ELSE lines,
                      Tail(fixes))
             ELSE apply_sorted_fixes(
                      InsertLine(lines, import_insert_pos(lines), fix[1]),
                      Tail(fixes))

fix_import_aliases_simple(lines, fixes) ==
    IF fixes = <<>> THEN lines
    ELSE apply_sorted_fixes(lines, sorted_fixes(fixes))

NoFixResult == [by |-> NoneValue, fixes |-> <<>>, lines |-> <<>>]

(* ------------------------------------------------------------------ *)
(* Variable-dependency completion of simple mode                        *)
(* (_save_workflow_simple, steps 1 to 5).  A failed block is read as    *)
(* ast.walk reads it: for each name, whether the block assigns it and   *)
(* which names the assigned expression loads.                           *)
(* ------------------------------------------------------------------ *)
VariableNames == {"a", "b", "c"}

DependencySets == {d \in SUBSET VariableNames : Cardinality(d) <= MaxDeps}

NotAssigned == [assigned |-> FALSE, dependencies |-> {}]

AssignmentsOf ==
    {NotAssigned} \cup {[assigned |-> TRUE, dependencies |-> d] : d \in DependencySets}

FailedBlocks == [VariableNames -> AssignmentsOf]

(* _extract_variable_usage and _extract_variable_definitions over the   *)
(* successful executions: the names loaded and the names assigned.      *)
SuccessfulCode == [uses : SUBSET VariableNames, defines : SUBSET VariableNames]

SimpleInputs ==
    [successful : SuccessfulCode,
     failed : UNION {[1..n -> FailedBlocks] : n \in 0..MaxFailed}]

SetMin(S) == CHOOSE x \in S : \A y \in S : x <= y

(* failed_var_definitions[var_name]: the first assignment of the name   *)
(* over the failed executions in order.                                 *)
failed_var_definitions(failed, var_name) ==
    LET at == {i \in 1..Len(failed) : failed[i][var_name].assigned}
    IN  IF at = {} THEN NotAssigned ELSE failed[SetMin(at)][var_name]

(* Step 3.5: the missing variables and, transitively, the dependencies  *)
(* of their first assignments that no successful execution defines.     *)
RECURSIVE expanded_missing(_, _, _)
expanded_missing(failed, defined_variables, expanded) ==
    LET more == UNION {failed_var_definitions(failed, v).dependencies : v \in expanded}
                \ (defined_variables \cup expanded)
    IN  IF more = {} THEN expanded
        ELSE expanded_missing(failed, defined_variables, expanded \cup more)

(* var_lookup_map[var_name]: every assignment of the name, by block. *)
IsAssigned(entry) == entry.assigned

var_lookup_map(failed) ==
    [v \in VariableNames |->
        SelectSeq([i \in 1..Len(failed) |->
                      [exec_idx |-> i - 1, assigned |-> failed[i][v].assigned,
                       dependencies |-> failed[i][v].dependencies]],
                  IsAssigned)]

(* The first definition in the list whose dependencies are all defined; *)
(* 0 when there is none.                                                *)
first_satisfied(entries, defined_variables) ==
    LET ok == {k \in 1..Len(entries) : entries[k].dependencies \subseteq defined_variables}
    IN  IF ok = {} THEN 0 ELSE SetMin(ok)

RemoveAt(seq, k) == SubSeq(seq, 1, k - 1) \o SubSeq(seq, k + 1, Len(seq))

NoCompletion ==
    [pc |-> "start", missing_variables |-> {}, defined_variables |-> {},
     var_lookup_map |-> [v \in VariableNames |-> <<>>], max_iterations |-> 0,
     iteration |-> 0, remaining_missing |-> {}, newly_extracted |-> FALSE,
     to_visit |-> {}, dependency_code_blocks |-> <<>>, code_blocks |-> <<>>]

NoSimpleInput == [successful |-> [uses |-> {}, defines |-> {}], failed |-> <<>>]

(* ------------------------------------------------------------------ *)
(* _parameterize_file_paths.  The code is read as its regular           *)
(* expressions read it: the pd.read_csv("...") and .to_csv("...")       *)
(* sites in order.  A path is its directory and the parts of its file   *)
(* name between dots (file_name.split('.')).                            *)
(* ------------------------------------------------------------------ *)
InputCsv == [dir |-> "", parts |-> <<"input", "csv">>]
FilteredCsv == [dir |-> "", parts |-> <<"filtered", "csv">>]
StarCountsTsvGz == [dir |-> "", parts |-> <<"TCGA", "star_counts", "tsv", "gz">>]
RefCsv == [dir |-> "/data", parts |-> <<"ref", "csv">>]

FilePaths == {InputCsv, FilteredCsv, StarCountsTsvGz, RefCsv}

Sites == [op : {"read_csv", "to_csv"}, path : FilePaths]

ParamArguments == UNION {[1..n -> Sites] : n \in 0..MaxStatements}

(* Path(file_path).is_absolute() and Path(file_path).name *)
is_absolute(file_path) == file_path.dir = "/data"

file_name(file_path) == [dir |-> "", parts |-> file_path.parts]

(* COMMON_INTERMEDIATE_PATTERNS searched in the path: a stem followed   *)
(* by ".csv", directly or (for the patterns with ".*") anywhere later.  *)
DirectStems == {"metadata", "deg_results", "results"}
LooseStems == {"filtered", "pca", "enrichment"}

matches_common_intermediate(file_path) ==
    LET parts == file_path.parts
    IN  \/ \E i \in 1..(Len(parts) - 1) :
              parts[i] \in DirectStems /\ parts[i + 1] = "csv"
        \/ \E i \in 1..Len(parts) : \E j \in (i + 1)..Len(parts) :
              parts[i] \in LooseStems /\ parts[j] = "csv"

(* _identify_intermediate_files: the paths the code saves *)
identify_intermediate_files(code) ==
    {code[k].path : k \in {j \in 1..Len(code) : code[j].op = "to_csv"}}

is_intermediate(code, file_path) ==
    \/ file_path \in identify_intermediate_files(code)
    \/ matches_common_intermediate(file_path)

(* The file type taken from the parts of the name; "" when the name has *)
(* no dot.                                                              *)
file_type_of(file_path) ==
    LET parts == file_path.parts
        n == Len(parts)
    IN  IF n >= 3
        THEN IF parts[n - 1] \in {"tsv", "csv"} THEN parts[n - 2] ELSE parts[n - 1]
        ELSE IF n = 2 THEN parts[1] ELSE ""

(* input_file_patterns: (file_type, file_path) of the paths read that   *)
(* are neither intermediate nor absolute.                               *)
input_file_patterns(code) ==
    {<<file_type_of(code[k].path), code[k].path>> :
        k \in {j \in 1..Len(code) :
                  /\ code[j].op = "read_csv"
                  /\ ~is_intermediate(code, code[j].path)
                  /\ ~is_absolute(code[j].path)
                  /\ Len(code[j].path.parts) >= 2}}

file_type_map_keys(code) == {pair[1] : pair \in input_file_patterns(code)}

(* f'--input-{file_type.replace("_", "-")}' and f'input_{file_type}' *)
arg_name(file_type) ==
    CASE file_type = "input" -> "--input-input"
      [] file_type = "star_counts" -> "--input-star-counts"
      [] file_type = "filtered" -> "--input-filtered"
      [] file_type = "ref" -> "--input-ref"
      [] OTHER -> "--input-"

var_name_of(file_type) ==
    CASE file_type = "input" -> "input_input"
      [] file_type = "star_counts" -> "input_star_counts"
      [] file_type = "filtered" -> "input_filtered"
      [] file_type = "ref" -> "input_ref"
      [] OTHER -> "input_"

(* The arguments the argparse block declares and the variables it sets. *)
argparse_setup(code) ==
    IF Cardinality(input_file_patterns(code)) > 1
    THEN [declares |-> {arg_name(t) : t \in file_type_map_keys(code)}
                       \cup {"--output-dir"},
          sets |-> {var_name_of(t) : t \in file_type_map_keys(code)}
                   \cup {"output_dir"}]
    ELSE [declares |-> {"--input", "--output-dir"},
          sets |-> {"input_file", "output_dir"}]

(* replace_read_csv and replace_to_csv: what the site reads or writes   *)
(* after the rewrite: a literal path, a name under output_dir, or a     *)
(* variable with the literal path as its fallback.                      *)
replace_read_csv(code, file_path) ==
    IF is_intermediate(code, file_path)
    THEN [op |-> "read_csv", via |-> "output_dir", path |-> file_name(file_path)]
    ELSE IF is_absolute(file_path)
    THEN [op |-> "read_csv", via |-> "literal", path |-> file_path]
    ELSE IF /\ Len(file_path.parts) >= 2
            /\ file_type_of(file_path) \in file_type_map_keys(code)
    THEN [op |-> "read_csv", via |-> var_name_of(file_type_of(file_path)),
          path |-> file_path]
    ELSE [op |-> "read_csv", via |-> "input_file", path |-> file_path]

replace_to_csv(file_path) ==
    [op |-> "to_csv", via |-> "output_dir", path |-> file_name(file_path)]

parameterize_file_paths(code) ==
    [argparse |-> argparse_setup(code),
     sites |-> [k \in 1..Len(code) |->
                   IF code[k].op = "read_csv"
                   THEN replace_read_csv(code, code[k].path)
                   ELSE replace_to_csv(code[k].path)]]

NoParamResult == [argparse |-> [declares |-> {}, sets |-> {}], sites |-> <<>>]

(* ------------------------------------------------------------------ *)
(* The files of one validate_workflow call.  A file is known by its     *)
(* name (Path(p).name) and its content; 0 stands for "not there".       *)
(* ------------------------------------------------------------------ *)
RunFileNames == {"mid.csv", "out.csv"}
FileContents == {1, 2}
NoFile == 0

(* original_input_files: for each name, not recorded, recorded but no   *)
(* longer on disk, or recorded and on disk.                             *)
InputStates == {"not recorded", "gone", "on disk"}

RunFiles ==
    [input_files : [RunFileNames -> InputStates],
     expected_output_files : [RunFileNames -> FileContents \cup {NoFile}],
     written : [RunFileNames -> FileContents \cup {NoFile}],
     returncode : {0, 1}]

(* The names copied into the execution directory: src.exists(). *)
copied_input_filenames(input_files) ==
    {f \in RunFileNames : input_files[f] = "on disk"}

(* The files of the execution directory after the run: the copies of    *)
(* the inputs and what the script wrote.                                *)
InExecDir(rf) ==
    copied_input_filenames(rf.input_files)
    \cup {f \in RunFileNames : rf.written[f] # NoFile}

(* output_files: every file of the execution directory whose name is    *)
(* not the name of a copied input.                                      *)
collect_output_files(rf) ==
    [f \in RunFileNames |->
        IF f \in InExecDir(rf)
           /\ f \notin copied_input_filenames(rf.input_files)
        THEN rf.written[f] ELSE NoFile]

ExpectedNames(rf) ==
    {f \in RunFileNames : rf.expected_output_files[f] # NoFile}

(* compare_outputs(actual, expected): one difference per expected file  *)
(* that is missing or differs; extra files are listed but do not count. *)
compare_outputs_of(actual, rf) ==
    LET missing == {f \in ExpectedNames(rf) : actual[f] = NoFile}
        differs == {f \in ExpectedNames(rf) :
                       actual[f] # NoFile
                       /\ actual[f] # rf.expected_output_files[f]}
        extra == {f \in RunFileNames : actual[f] # NoFile} \ ExpectedNames(rf)
    IN  [all_match |-> missing = {} /\ differs = {},
         missing |-> missing, differs |-> differs, extra |-> extra]

NoComparison == [all_match |-> FALSE, missing |-> {}, differs |-> {}, extra |-> {}]

validate_files(rf) ==
    LET actual == collect_output_files(rf)
    IN  IF rf.returncode # 0
        THEN [called |-> TRUE, valid |-> FALSE, output_files |-> actual,
              comparison |-> NoComparison]
        ELSE [called |-> TRUE,
              valid |-> compare_outputs_of(actual, rf).all_match,
              output_files |-> actual,
              comparison |-> compare_outputs_of(actual, rf)]

NoRunFiles ==
    [input_files |-> [f \in RunFileNames |-> "not recorded"],
     expected_output_files |-> [f \in RunFileNames |-> NoFile],
     written |-> [f \in RunFileNames |-> NoFile],
     returncode |-> 0]

NoVerdict ==
    [called |-> FALSE, valid |-> FALSE,
     output_files |-> [f \in RunFileNames |-> NoFile],
     comparison |-> NoComparison]





(* ------------------------------------------------------------------ *)
(* Initial state: a fresh tracker and saver, an idle executor           *)
(* ------------------------------------------------------------------ *)
NoObs ==
    [validatorCalls |-> 0, fixCalls |-> 0,
     everValid |-> FALSE, calledAfterValid |-> FALSE,
     emitted |-> FALSE, finalized |-> FALSE, renameFailed |-> FALSE,
     noExpected |-> FALSE, history |-> <<>>]

(* Observations of one run of the retry loop.  They are kept until the  *)
(* caller has taken save_workflow's result and moves on to validation.  *)
NoLoopObs ==
    [llmCalls |-> 0, emptySeen |-> FALSE, covered |-> FALSE,
     calledAfterCovered |-> FALSE,
     forced |-> FALSE, forcedMissing |-> {}, spliced |-> {},
     lastPassed |-> NoneValue, prevMissing |-> {},
     missedBefore |-> {}, missedSoFar |-> {}]

NoText == [alias |-> FALSE, rev |-> 0]

LLMLocalsInit ==
    /\ filtered_executions = <<>>
    /\ attempt = 0
    /\ workflow_code = EmptyCode
    /\ missing_outputs = {}
    /\ all_missing_outputs_history = <<>>

LLMLocalsReset ==
    /\ filtered_executions' = <<>>
    /\ attempt' = 0
    /\ workflow_code' = EmptyCode
    /\ missing_outputs' = {}
    /\ all_missing_outputs_history' = <<>>

SaverInit ==
    /\ execution_history_mem = <<>>
    /\ journal = <<>>
    /\ all_output_files = {}
    /\ validator \in BOOLEAN
    /\ pc = "idle"
    /\ save_mode = NoneValue
    /\ max_fix_attempts = 0
    /\ LLMLocalsInit
    /\ temp_workflow_path = NoneValue
    /\ expected_outputs = {}
    /\ current_workflow = NoText
    /\ fix_attempt = 0
    /\ result = NoneValue
    /\ files = {}
    /\ obs = NoObs
    /\ loopObs = NoLoopObs

ExecInit ==
    /\ is_executing = FALSE
    /\ interrupt_event = FALSE
    /\ runner = [pc |-> "idle", outcome |-> NoneValue, pending |-> NoneValue,
                 results |-> <<>>]
    /\ intr = [pc |-> "idle", seen |-> 0, returned |-> <<>>]

(* ------------------------------------------------------------------ *)
(* WorkflowTracker                                                      *)
(* ------------------------------------------------------------------ *)
(* track_execution: appends the entry, records its output files and     *)
(* mirrors it to the journal directory.                                 *)
track_execution(e) ==
    /\ pc = "idle"
    /\ Len(journal) < MaxBlocks
    /\ execution_history_mem' = Append(execution_history_mem, e)
    /\ all_output_files' = all_output_files \cup e.output_files
    /\ journal' = Append(journal, e)
    /\ UNCHANGED <<callVars, llmVars, valVars, pc, result, files, obsVars, execVars, restVars>>

(* clear: empties the in-memory state; the journal files stay. *)
clear ==
    /\ pc = "idle"
    /\ execution_history_mem # <<>>
    /\ execution_history_mem' = <<>>
    /\ all_output_files' = {}
    /\ UNCHANGED <<journal, callVars, llmVars, valVars, pc, result, files,
                   obsVars, execVars, restVars>>

(* ------------------------------------------------------------------ *)
(* WorkflowSaver.save_and_validate_workflow                             *)
(* ------------------------------------------------------------------ *)
ModeArgs == {"llm", "simple", "notebook", "html"}

(* Entry: argument normalisation, then save_workflow is called. *)
save_and_validate_workflow(mode, mfa) ==
    /\ pc = "idle"
    /\ save_mode' = normalize_mode(mode)
    /\ max_fix_attempts' = normalize_max_fix(mfa)
    /\ pc' = "save_workflow"
    /\ UNCHANGED <<trackerVars, validator, llmVars, valVars, result, files,
                   obsVars, execVars, restVars>>

(* A return of None out of save_workflow ends the call (line 1183). *)
ReturnNone(o) ==
    /\ pc' = "done"
    /\ result' = NoneValue
    /\ obs' = o

(* _save_workflow_simple: successful blocks concatenated and written by *)
(* _save_workflow_file(..., temp=False); an OSError of the write is      *)
(* re-raised.                                                           *)
save_workflow_simple ==
    /\ pc = "save_workflow"
    /\ save_mode = "simple"
    /\ LET execution_history == choose_history(execution_history_mem, journal)
           successful_executions ==
               SelectSeq(execution_history, LAMBDA e : e.success)
           o == [obs EXCEPT !.history = execution_history]
       IN  IF execution_history = <<>> \/ successful_executions = <<>>
           THEN /\ ReturnNone(o)
                /\ UNCHANGED <<files, valVars>>
           ELSE \E writeOk \in BOOLEAN, a \in BOOLEAN :
                  IF writeOk
                  THEN /\ files' = files \cup {workflow_file_name(simple_temp_flag)}
                       /\ temp_workflow_path' =
                              workflow_file_name(simple_temp_flag)
                       /\ current_workflow' = [alias |-> a, rev |-> 0]
                       /\ pc' = "saved"
                       /\ obs' = [o EXCEPT !.emitted = TRUE]
                       /\ UNCHANGED <<result, expected_outputs, fix_attempt>>
                  ELSE /\ pc' = "raised"
                       /\ obs' = o
                       /\ UNCHANGED <<result, files, valVars>>
    /\ UNCHANGED loopObs
    /\ UNCHANGED <<trackerVars, callVars, llmVars, execVars, restVars>>

(* _save_workflow_notebook: every block becomes a cell; the notebook is  *)
(* written to workflow_<name>_<ts>.ipynb; a failed write returns None.   *)
save_workflow_notebook ==
    /\ pc = "save_workflow"
    /\ save_mode = "notebook"
    /\ LET execution_history == choose_history(execution_history_mem, journal)
           o == [obs EXCEPT !.history = execution_history]
       IN  IF execution_history = <<>>
           THEN /\ ReturnNone(o)
                /\ UNCHANGED <<files, valVars>>
           ELSE \E writeOk \in BOOLEAN :
                  IF writeOk
                  THEN /\ files' = files \cup {NotebookPath}
                       /\ temp_workflow_path' = NotebookPath
                       /\ pc' = "saved"
                       /\ obs' = [o EXCEPT !.emitted = TRUE]
                       /\ UNCHANGED <<result, expected_outputs, current_workflow,
                                      fix_attempt>>
                  ELSE /\ ReturnNone(o)
                       /\ UNCHANGED <<files, valVars>>
    /\ UNCHANGED loopObs
    /\ UNCHANGED <<trackerVars, callVars, llmVars, execVars, restVars>>

(* _save_workflow_llm up to its retry loop: filter, preprocess.  When   *)
(* preprocess raises, the except clause leaves preprocessed_data = {}   *)
(* and the print of preprocessed_data['imports'] (251) raises KeyError. *)
save_workflow_llm ==
    /\ pc = "save_workflow"
    /\ save_mode = "llm"
    /\ LET execution_history == choose_history(execution_history_mem, journal)
           filtered == filter_executions(execution_history)
           o == [obs EXCEPT !.history = execution_history]
       IN  IF execution_history = <<>> \/ filtered = <<>>
           THEN /\ ReturnNone(o)
                /\ UNCHANGED llmVars
           ELSE \E preprocessOk \in BOOLEAN :
                  IF preprocessOk
                  THEN /\ filtered_executions' = filtered
                       /\ attempt' = 0
                       /\ workflow_code' = EmptyCode
                       /\ missing_outputs' = {}
                       /\ all_missing_outputs_history' = <<>>
                       /\ pc' = "llm_loop"
                       /\ obs' = o
                       /\ UNCHANGED result
                  ELSE /\ pc' = "raised"
                       /\ obs' = o
                       /\ UNCHANGED <<result, llmVars>>
    /\ UNCHANGED loopObs
    /\ UNCHANGED <<trackerVars, callVars, valVars, files, execVars, restVars>>


(* The tail of _save_workflow_llm (351-398): the complete file is        *)
(* written by _save_workflow_file(..., temp=True), whose OSError is      *)
(* re-raised.  generate_workflow_file re-extracts the imports and drops  *)
(* those of unavailable packages, so the text on disk may again show a   *)
(* mismatch.                                                            *)
save_workflow_llm_emit ==
    /\ \E writeOk \in BOOLEAN, a \in BOOLEAN :
         IF writeOk
         THEN /\ files' = files \cup {workflow_file_name(llm_temp_flag)}
              /\ temp_workflow_path' = workflow_file_name(llm_temp_flag)
              /\ current_workflow' = [alias |-> a, rev |-> 0]
              /\ pc' = "saved"
              /\ obs' = [obs EXCEPT !.emitted = TRUE]
              /\ UNCHANGED <<result, expected_outputs, fix_attempt>>
         ELSE /\ pc' = "raised"
              /\ UNCHANGED <<result, obs, files, valVars>>
    /\ LLMLocalsReset

(* One iteration of the retry loop of _save_workflow_llm (263-336): the  *)
(* LLM call with the cumulative missing list, rule-based fixes,          *)
(* postprocessing and the coverage check; when the loop ends here, by    *)
(* break or by exhaustion with forced inclusion, the tail of the         *)
(* function follows.                                                    *)
save_workflow_llm_attempt ==
    /\ pc = "llm_loop"
    /\ LET mapping == map_output_files(filtered_executions)
           expected_output_files == DOMAIN mapping
           cumulative == cumulative_missing(missing_outputs,
                                            all_missing_outputs_history)
           called == [loopObs EXCEPT
                        !.llmCalls = @ + 1,
                        !.lastPassed = IF attempt > 0 THEN cumulative
                                       ELSE NoneValue,
                        !.prevMissing = missing_outputs,
                        !.missedBefore = loopObs.missedSoFar,
                        !.calledAfterCovered = @ \/ loopObs.covered]
           Basenames(i) == {BaseName(q) :
                              q \in filtered_executions[i].output_files}
       IN  \E response \in LLMCodes :
             IF is_empty_code(response)
             THEN /\ ReturnNone(obs)
                  /\ loopObs' = [called EXCEPT !.emptySeen = response.empty]
                  /\ LLMLocalsReset
                  /\ UNCHANGED <<files, valVars>>
             ELSE LET code == postprocess(apply_rule_based_fixes(response))
                      generated_output_files == extract_output_files(code)
                      missing == expected_output_files \ generated_output_files
                      logged == [called EXCEPT
                                   !.emptySeen = @ \/ response.empty,
                                   !.missedSoFar = @ \cup missing,
                                   !.covered = @ \/ (missing = {})]
                  IN  IF all_outputs_present(missing)
                      THEN /\ loopObs' = logged
                           /\ save_workflow_llm_emit
                      ELSE IF retries_left(attempt)
                      THEN /\ missing_outputs' = missing
                           /\ all_missing_outputs_history' =
                                  Append(all_missing_outputs_history, missing)
                           /\ attempt' = attempt + 1
                           /\ workflow_code' = code
                           /\ loopObs' = logged
                           /\ UNCHANGED <<filtered_executions, pc, result, obs,
                                          files, valVars>>
                      ELSE LET forcedCode ==
                                   enforce_output_file_inclusion(
                                       code, missing, filtered_executions,
                                       mapping)
                           IN  /\ loopObs' = [logged EXCEPT
                                     !.forced = TRUE,
                                     !.forcedMissing = missing,
                                     !.spliced =
                                        {[file |-> b.file, entry |-> b.entry,
                                          outs |-> Basenames(b.entry)] :
                                         b \in forcedCode.spliced}]
                               /\ save_workflow_llm_emit
    /\ UNCHANGED <<trackerVars, callVars, execVars, restVars>>

(* _finalize_workflow_file(temp_workflow_path) followed by the return    *)
(* of its result: the rename may be refused by the file system, and then *)
(* the path given is returned.                                          *)
Finalize(renameOk, o) ==
    /\ files' = IF temp_workflow_path \in files /\ renameOk
                THEN (files \ {temp_workflow_path})
                         \cup {final_name(temp_workflow_path)}
                ELSE files
    /\ result' = IF temp_workflow_path \in files /\ renameOk
                 THEN final_name(temp_workflow_path)
                 ELSE temp_workflow_path
    /\ pc' = "done"
    /\ obs' = [o EXCEPT !.finalized = (temp_workflow_path \in files /\ renameOk),
                        !.renameFailed = ~renameOk]

(* One validator.validate_workflow call as seen by the saver. *)
Validated(o, valid) ==
    [o EXCEPT !.validatorCalls = @ + 1,
              !.everValid = @ \/ valid,
              !.calledAfterValid = o.everValid]

(* save_and_validate_workflow from the return of save_workflow to the    *)
(* first validation (1186-1287).                                        *)
validate_saved_workflow ==
    /\ pc = "saved"
    /\ \E renameOk \in BOOLEAN :
         IF skips_validation(validator, save_mode)
         THEN /\ Finalize(renameOk, obs)
              /\ UNCHANGED <<expected_outputs, current_workflow>>
         ELSE \E expected \in SUBSET all_output_files :
                LET o == [obs EXCEPT !.noExpected = (expected = {})]
                IN  IF no_expected_outputs(expected)
                    THEN /\ Finalize(renameOk, o)
                         /\ UNCHANGED <<expected_outputs, current_workflow>>
                    ELSE \E readOk \in BOOLEAN, valid \in BOOLEAN :
                           IF ~readOk
                           THEN /\ ReturnNone(o)
                                /\ UNCHANGED <<files, expected_outputs,
                                               current_workflow>>
                           ELSE IF valid
                           THEN /\ Finalize(renameOk, Validated(o, TRUE))
                                /\ UNCHANGED <<expected_outputs,
                                               current_workflow>>
                           ELSE /\ pc' = "rule_fix"
                                /\ expected_outputs' = expected
                                /\ obs' = Validated(o, FALSE)
                                /\ UNCHANGED <<files, result,
                                               current_workflow>>
    /\ loopObs' = NoLoopObs
    /\ UNCHANGED <<trackerVars, callVars, llmVars, temp_workflow_path,
                   fix_attempt, execVars, restVars>>

(* After the rule-based stage (1345-1360): simple mode finalizes as is,  *)
(* llm mode enters the LLM repair loop, or gives up when it has no       *)
(* attempts.                                                            *)
AfterRuleStage(renameOk, o) ==
    IF skips_llm_repair(save_mode)
    THEN /\ Finalize(renameOk, o)
         /\ UNCHANGED fix_attempt
    ELSE IF fix_attempts_left(0, max_fix_attempts)
    THEN /\ pc' = "llm_fix"
         /\ fix_attempt' = 1
         /\ obs' = o
         /\ UNCHANGED <<files, result>>
    ELSE /\ ReturnNone(o)
         /\ UNCHANGED <<files, fix_attempt>>

(* The rule-based repair stage (1300-1343) and what follows it. *)
rule_based_repair ==
    /\ pc = "rule_fix"
    /\ LET fixed_workflow == apply_rule_based_fixes(current_workflow)
       IN  \E renameOk \in BOOLEAN :
             IF fixed_workflow # current_workflow
             THEN /\ current_workflow' = fixed_workflow
                  /\ \E writeOk \in BOOLEAN, valid \in BOOLEAN :
                       IF writeOk /\ valid
                       THEN /\ Finalize(renameOk, Validated(obs, TRUE))
                            /\ UNCHANGED fix_attempt
                       ELSE IF writeOk
                       THEN AfterRuleStage(renameOk, Validated(obs, FALSE))
                       ELSE AfterRuleStage(renameOk, obs)
             ELSE /\ UNCHANGED current_workflow
                  /\ AfterRuleStage(renameOk, obs)
    /\ UNCHANGED <<trackerVars, callVars, llmVars, temp_workflow_path,
                   expected_outputs, loopObs, execVars, restVars>>

(* The end of one iteration of the LLM repair loop: next attempt, or     *)
(* "all fix attempts failed" and None (1408-1422).                      *)
NextFixAttempt(o) ==
    IF fix_attempts_left(fix_attempt, max_fix_attempts)
    THEN /\ fix_attempt' = fix_attempt + 1
         /\ pc' = "llm_fix"
         /\ obs' = o
         /\ UNCHANGED <<files, result>>
    ELSE /\ ReturnNone(o)
         /\ UNCHANGED <<files, fix_attempt>>

(* One iteration of the LLM repair loop (1360-1406).  fix_workflow_code  *)
(* answers nothing, the text it was given (also when invoke() raises),   *)
(* or a new text.                                                       *)
llm_fix_attempt ==
    /\ pc = "llm_fix"
    /\ LET o == [obs EXCEPT !.fixCalls = @ + 1]
       IN  \E answer \in {"empty", "same", "new"}, a \in BOOLEAN,
              writeOk \in BOOLEAN, valid \in BOOLEAN, renameOk \in BOOLEAN :
             IF answer # "new"
             THEN /\ NextFixAttempt(o)
                  /\ UNCHANGED current_workflow
             ELSE LET fixed_workflow ==
                          apply_rule_based_fixes(
                              [alias |-> a, rev |-> current_workflow.rev + 1])
                  IN  IF ~writeOk
                      THEN /\ pc' = "raised"
                           /\ obs' = o
                           /\ UNCHANGED <<files, result, current_workflow,
                                          fix_attempt>>
                      ELSE IF valid
                      THEN /\ Finalize(renameOk, Validated(o, TRUE))
                           /\ UNCHANGED <<current_workflow, fix_attempt>>
                      ELSE /\ current_workflow' = fixed_workflow
                           /\ NextFixAttempt(Validated(o, FALSE))
    /\ UNCHANGED <<trackerVars, callVars, llmVars, temp_workflow_path,
                   expected_outputs, loopObs, execVars, restVars>>

(* ------------------------------------------------------------------ *)
(* Specification of the saver                                           *)
(* ------------------------------------------------------------------ *)
FilterIdle ==
    /\ filter_input = <<>>
    /\ filter_output = NoneValue

(* WorkflowValidator.__init__: only the path of the workspace is set. *)
NoResult == [valid |-> FALSE, error |-> "no result"]

NoValidation ==
    [pc |-> "idle", result |-> NoResult, cleanup |-> "none", calls |-> 0]

ValidatorInit ==
    /\ temp_dir = "absent"
    /\ validation = NoValidation
    /\ validation_log = <<>>

(* No tracker constructed yet, an empty execute_blocks directory. *)
JournalInit ==
    /\ now = 0
    /\ trackers = [i \in TrackerIds |-> NoTracker]
    /\ execute_blocks_dir = EmptyDir
    /\ loaded = NoLoad

FixIdle ==
    /\ fix_code = <<>>
    /\ fix_result = NoFixResult

DepIdle ==
    /\ simple_input = NoSimpleInput
    /\ completion = NoCompletion

ParamIdle ==
    /\ param_code = <<>>
    /\ param_result = NoParamResult

RunIdle ==
    /\ run_files = NoRunFiles
    /\ run_verdict = NoVerdict

(* No call of the service made. *)
NoStart == -1

NoService ==
    [called |-> FALSE, filter_by_session |-> FALSE, session_start_time |-> NoStart,
     outcome |-> "none", loaded |-> <<>>, used |-> <<>>]

ServiceIdle == service = NoService

AnalysisIdle == FixIdle /\ DepIdle /\ ParamIdle /\ RunIdle /\ ServiceIdle

Init ==
    /\ SaverInit /\ ExecInit /\ FilterIdle /\ ValidatorInit /\ JournalInit
    /\ AnalysisIdle

Next ==
    \/ \E e \in BlockInputs : track_execution(e)
    \/ clear
    \/ \E mode \in ModeArgs, mfa \in -1..MaxFix :
          save_and_validate_workflow(mode, mfa)
    \/ save_workflow_simple
    \/ save_workflow_notebook
    \/ save_workflow_llm
    \/ save_workflow_llm_attempt
    \/ validate_saved_workflow
    \/ rule_based_repair
    \/ llm_fix_attempt

Spec == Init /\ [][Next]_vars

(* ------------------------------------------------------------------ *)
(* E2BCodeInterpreterExecutor: run_python against interrupt()           *)
(* ------------------------------------------------------------------ *)
(* Each access to one of the two threading.Event flags is a step of its *)
(* own; run_bash and run_r follow the same protocol as run_python.      *)
(* A run call's results are kept in call order, an interrupt() call's   *)
(* return value with the number of the block it saw executing.          *)
INTERRUPTED_BEFORE_START == "Execution interrupted by user before starting."
INTERRUPTED == "Execution interrupted by user."

(* What the run call returns once sandbox.run_code has come back. *)
run_result(interrupted, outcome) ==
    IF interrupted THEN INTERRUPTED
    ELSE IF outcome = "returned" THEN "formatted result"
    ELSE "Error Type"

(* interrupt()'s first test: nothing to do unless a run is marked. *)
nothing_to_interrupt(executing) == ~executing

(* run_python, the check before starting. *)
run_python_check ==
    /\ runner.pc = "idle"
    /\ Len(runner.results) < MaxRuns
    /\ IF interrupt_event
       THEN /\ interrupt_event' = FALSE
            /\ runner' = [runner EXCEPT
                             !.results = Append(@, INTERRUPTED_BEFORE_START)]
       ELSE /\ runner' = [runner EXCEPT !.pc = "try"]
            /\ UNCHANGED interrupt_event
    /\ UNCHANGED <<is_executing, intr, saverVars, restVars>>

(* self._mark_executing() *)
run_python_mark_executing ==
    /\ runner.pc = "try"
    /\ is_executing' = TRUE
    /\ runner' = [runner EXCEPT !.pc = "run_code"]
    /\ UNCHANGED <<interrupt_event, intr, saverVars, restVars>>

(* sandbox.run_code returns a result or raises. *)
run_python_run_code ==
    /\ runner.pc = "run_code"
    /\ \E outcome \in {"returned", "raised"} :
         runner' = [runner EXCEPT !.pc = "check", !.outcome = outcome]
    /\ UNCHANGED <<is_executing, interrupt_event, intr, saverVars, restVars>>

(* The is_interrupted() test of the try body or of the except clause,  *)
(* with reset_interrupt() when it is set.                               *)
run_python_result ==
    /\ runner.pc = "check"
    /\ runner' = [runner EXCEPT
                     !.pc = "finally",
                     !.pending = run_result(interrupt_event, runner.outcome)]
    /\ interrupt_event' = IF interrupt_event THEN FALSE ELSE interrupt_event
    /\ UNCHANGED <<is_executing, intr, saverVars, restVars>>

(* finally: self._mark_idle(), then the value is returned. *)
run_python_finally ==
    /\ runner.pc = "finally"
    /\ is_executing' = FALSE
    /\ runner' = [pc |-> "idle", outcome |-> NoneValue, pending |-> NoneValue,
                  results |-> Append(runner.results, runner.pending)]
    /\ UNCHANGED <<interrupt_event, intr, saverVars, restVars>>

(* interrupt(): the test of _is_executing. *)
interrupt_check ==
    /\ intr.pc = "idle"
    /\ Len(intr.returned) < MaxInterrupts
    /\ IF nothing_to_interrupt(is_executing)
       THEN intr' = [intr EXCEPT
                       !.returned = Append(@, [block |-> 0, value |-> FALSE])]
       ELSE intr' = [intr EXCEPT !.pc = "set",
                                 !.seen = Len(runner.results) + 1]
    /\ UNCHANGED <<is_executing, interrupt_event, runner, saverVars, restVars>>

(* interrupt(): self._interrupt_event.set() *)
interrupt_set ==
    /\ intr.pc = "set"
    /\ interrupt_event' = TRUE
    /\ intr' = [intr EXCEPT !.pc = "stop"]
    /\ UNCHANGED <<is_executing, runner, saverVars, restVars>>

(* interrupt(): kernel restart or pkill; True, or False when the        *)
(* restart raises.                                                      *)
interrupt_stop ==
    /\ intr.pc = "stop"
    /\ \E stopped \in BOOLEAN :
         intr' = [pc |-> "idle", seen |-> 0,
                  returned |-> Append(intr.returned,
                                      [block |-> intr.seen, value |-> stopped])]
    /\ UNCHANGED <<is_executing, interrupt_event, runner, saverVars, restVars>>

ExecNext ==
    \/ run_python_check
    \/ run_python_mark_executing
    \/ run_python_run_code
    \/ run_python_result
    \/ run_python_finally
    \/ interrupt_check
    \/ interrupt_set
    \/ interrupt_stop

ExecSpec == Init /\ [][ExecNext]_vars

(* -------------------------------------------------------------------- *)
(* WorkflowValidator.validate_workflow.  temp_dir is "absent", "empty"  *)
(* (the directory exists) or "execution" (it holds the execution        *)
(* directory of run_workflow_script).                                   *)
(* -------------------------------------------------------------------- *)
InvalidResult(error) == [valid |-> FALSE, error |-> error]
ComparisonResult(all_match) == [valid |-> all_match, error |-> "None"]

(* Faulty variant: the workspace is taken to be gone already. *)
temp_dir_never_exists(dir) == FALSE

(* self.temp_dir.exists() *)
temp_dir_exists(dir) == dir # "absent"

(* self.temp_dir.mkdir(parents=True, exist_ok=True), before the try:    *)
(* an existing directory is accepted, a failure to create it escapes.   *)
validate_workflow_mkdir ==
    /\ validation.pc = "idle"
    /\ validation.calls < MaxValidations
    /\ \E created \in BOOLEAN :
          IF temp_dir_exists(temp_dir) \/ created
          THEN /\ temp_dir' = IF temp_dir = "absent" THEN "empty" ELSE temp_dir
               /\ validation' = [validation EXCEPT !.pc = "run_workflow_script",
                                    !.result = NoResult, !.cleanup = "none"]
          ELSE /\ temp_dir' = temp_dir
               /\ validation' = [validation EXCEPT !.pc = "raised",
                                    !.result = NoResult, !.cleanup = "none"]
    /\ UNCHANGED <<validation_log, saverVars, execVars, filterVars, journalVars, analysisVars>>

(* run_workflow_script: creates the execution directory and copies the  *)
(* inputs (either may raise into validate_workflow's except clause),    *)
(* then runs the script; a timeout or another exception of the run is   *)
(* returned as an unsuccessful result.                                  *)
RunOutcomes == {"success", "nonzero", "Timeout", "error"}

run_workflow_script ==
    /\ validation.pc = "run_workflow_script"
    /\ \/ /\ temp_dir' = temp_dir
          /\ validation' = [validation EXCEPT !.pc = "except"]
       \/ /\ temp_dir' = "execution"
          /\ validation' = [validation EXCEPT !.pc = "except"]
       \/ /\ temp_dir' = "execution"
          /\ \E outcome \in RunOutcomes :
                IF outcome = "success"
                THEN validation' = [validation EXCEPT !.pc = "compare_outputs"]
                ELSE validation' = [validation EXCEPT !.pc = "finally",
                                       !.result = InvalidResult(outcome)]
    /\ UNCHANGED <<validation_log, saverVars, execVars, filterVars, journalVars, analysisVars>>

(* compare_outputs and the return of its verdict. *)
compare_outputs ==
    /\ validation.pc = "compare_outputs"
    /\ \/ \E all_match \in BOOLEAN :
             validation' = [validation EXCEPT !.pc = "finally",
                               !.result = ComparisonResult(all_match)]
       \/ validation' = [validation EXCEPT !.pc = "except"]
    /\ UNCHANGED <<temp_dir, validation_log, saverVars, execVars, filterVars, journalVars, analysisVars>>

(* except Exception: the error becomes an invalid result. *)
validate_workflow_except ==
    /\ validation.pc = "except"
    /\ validation' = [validation EXCEPT !.pc = "finally",
                         !.result = InvalidResult("Validation error")]
    /\ UNCHANGED <<temp_dir, validation_log, saverVars, execVars, filterVars, journalVars, analysisVars>>

(* finally: _cleanup_temp_dir.  rmtree either removes the directory or  *)
(* raises, possibly after removing part of it; the exception is printed *)
(* as a warning and not raised.                                         *)
cleanup_temp_dir ==
    /\ validation.pc = "finally"
    /\ IF temp_dir_exists(temp_dir)
       THEN \/ /\ temp_dir' = "absent"
               /\ validation' = [validation EXCEPT !.pc = "return",
                                    !.cleanup = "removed"]
               /\ UNCHANGED validation_log
            \/ /\ temp_dir' \in {temp_dir, "empty"}
               /\ validation' = [validation EXCEPT !.pc = "return",
                                    !.cleanup = "failed"]
               /\ validation_log' =
                      Append(validation_log, "Failed to cleanup temp directory")
       ELSE /\ validation' = [validation EXCEPT !.pc = "return",
                                 !.cleanup = "nothing to remove"]
            /\ UNCHANGED <<temp_dir, validation_log>>
    /\ UNCHANGED <<saverVars, execVars, filterVars, journalVars, analysisVars>>

(* The call is over: its result was returned or its exception escaped. *)
validate_workflow_done ==
    /\ validation.pc \in {"return", "raised"}
    /\ validation' = [validation EXCEPT !.pc = "idle",
                         !.calls = validation.calls + 1]
    /\ UNCHANGED <<temp_dir, validation_log, saverVars, execVars, filterVars, journalVars, analysisVars>>

ValidatorNext ==
    \/ validate_workflow_mkdir
    \/ run_workflow_script
    \/ compare_outputs
    \/ validate_workflow_except
    \/ cleanup_temp_dir
    \/ validate_workflow_done

ValidatorSpec == Init /\ [][ValidatorNext]_vars

(* -------------------------------------------------------------------- *)
(* WorkflowTracker: two trackers of two agent sessions that share one   *)
(* workflows/execute_blocks directory, and whatever else writes there.  *)
(* The clock does not go backwards.                                     *)
(* -------------------------------------------------------------------- *)
(* A load call runs to its return before anything else happens. *)
NoLoadRunning == loaded.outcome = "none"

Damaged(dir) ==
    {n \in DOMAIN dir :
        dir[n].kind = "partial" \/ dir[n].entry.timestamp = JsonNull}

RECURSIVE SumTracked(_)
SumTracked(ids) ==
    IF ids = {} THEN 0
    ELSE LET i == CHOOSE j \in ids : TRUE
         IN  trackers[i].tracked + SumTracked(ids \ {i})

TotalTracked == SumTracked(TrackerIds)

(* WorkflowTracker.__init__ *)
tracker_init(i) ==
    /\ NoLoadRunning
    /\ ~trackers[i].made
    /\ trackers' = [trackers EXCEPT ![i] =
                       [made |-> TRUE, session_start_time |-> now,
                        execution_history |-> <<>>, tracked |-> 0]]
    /\ UNCHANGED <<now, execute_blocks_dir, loaded>>
    /\ UNCHANGED <<saverVars, execVars, filterVars, validatorVars, analysisVars>>

clock_tick ==
    /\ NoLoadRunning
    /\ now < MaxTicks
    /\ now' = now + 1
    /\ UNCHANGED <<trackers, execute_blocks_dir, loaded>>
    /\ UNCHANGED <<saverVars, execVars, filterVars, validatorVars, analysisVars>>

(* track_execution with _save_execute_block: the entry is appended, the *)
(* file index is the new length of the history; the .json file is       *)
(* written whole, written in part (the dump fails midway), or not at    *)
(* all (open fails); the exception is printed and swallowed.            *)
SaveOutcomes == {"saved", "partial", "failed"}

tracker_track_execution(i, result_length, outcome) ==
    /\ NoLoadRunning
    /\ trackers[i].made
    /\ TotalTracked < MaxTracks
    /\ LET entry == [owner |-> i, n |-> trackers[i].tracked + 1,
                     timestamp |-> isoformat(now),
                     result_length |-> result_length]
           history == append_entry(trackers[i].execution_history, entry)
           name == block_file_name(now, Len(history))
       IN  /\ trackers' = [trackers EXCEPT ![i].execution_history = history,
                                           ![i].tracked = @ + 1]
           /\ CASE outcome = "saved" ->
                     execute_blocks_dir' =
                         WriteFile(execute_blocks_dir, name,
                                   BlockFile(persisted(entry), now))
                [] outcome = "partial" ->
                     /\ Cardinality(Damaged(execute_blocks_dir) \ {name})
                            < MaxDamaged
                     /\ execute_blocks_dir' =
                            WriteFile(execute_blocks_dir, name, PartialFile(now))
                [] outcome = "failed" ->
                     UNCHANGED execute_blocks_dir
    /\ UNCHANGED <<now, loaded>>
    /\ UNCHANGED <<saverVars, execVars, filterVars, validatorVars, analysisVars>>

(* WorkflowTracker.clear: the journal files stay. *)
tracker_clear(i) ==
    /\ NoLoadRunning
    /\ trackers[i].made
    /\ trackers[i].execution_history # <<>>
    /\ trackers' = [trackers EXCEPT ![i].execution_history = <<>>]
    /\ UNCHANGED <<now, execute_blocks_dir, loaded>>
    /\ UNCHANGED <<saverVars, execVars, filterVars, validatorVars, analysisVars>>

(* Another program puts a well-formed block file under a name of its    *)
(* own into the directory.                                              *)
foreign_file(name) ==
    /\ NoLoadRunning
    /\ name \notin DOMAIN execute_blocks_dir
    /\ Cardinality(DOMAIN execute_blocks_dir \cap ForeignNames) < MaxForeign
    /\ execute_blocks_dir' =
           WriteFile(execute_blocks_dir, name,
                     BlockFile([owner |-> 0, n |-> Len(name),
                                timestamp |-> isoformat(now),
                                result_length |-> RESULT_TRUNCATE_LENGTH],
                               now))
    /\ UNCHANGED <<now, trackers, loaded>>
    /\ UNCHANGED <<saverVars, execVars, filterVars, validatorVars, analysisVars>>

(* A journal file is damaged after it was written: rewritten as valid   *)
(* JSON whose timestamp is null.                                        *)
damage_file ==
    /\ NoLoadRunning
    /\ Cardinality(Damaged(execute_blocks_dir)) < MaxDamaged
    /\ \E name \in DOMAIN execute_blocks_dir :
          execute_blocks_dir' =
              [execute_blocks_dir EXCEPT ![name] =
                  [@ EXCEPT !.entry.timestamp = JsonNull]]
    /\ UNCHANGED <<now, trackers, loaded>>
    /\ UNCHANGED <<saverVars, execVars, filterVars, validatorVars, analysisVars>>

(* load_execute_blocks_from_files *)
FilesOfSession(i, filter_by_session) ==
    {n \in DOMAIN execute_blocks_dir :
        filter_by_session =>
            is_file_from_current_session(
                n, session_start_str(trackers[i].session_start_time))}

RECURSIVE ReadBlocks(_)
ReadBlocks(names) ==
    IF names = <<>> THEN <<>>
    ELSE LET file == execute_blocks_dir[Head(names)]
         IN  (IF file.kind = "block" THEN <<file.entry>> ELSE <<>>)
                 \o ReadBlocks(Tail(names))

load_execute_blocks_from_files(i, filter_by_session) ==
    /\ trackers[i].made
    /\ NoLoadRunning
    /\ LET json_files == FilesOfSession(i, filter_by_session)
           loaded_blocks == ReadBlocks(SortedNames(json_files))
       IN  loaded' =
               IF sort_raises(loaded_blocks)
               THEN [outcome |-> "raised", by |-> i,
                     filter_by_session |-> filter_by_session,
                     blocks |-> <<>>, files |-> json_files]
               ELSE [outcome |-> "returned", by |-> i,
                     filter_by_session |-> filter_by_session,
                     blocks |-> restore_order(loaded_blocks),
                     files |-> json_files]
    /\ UNCHANGED <<now, trackers, execute_blocks_dir>>
    /\ UNCHANGED <<saverVars, execVars, filterVars, validatorVars, analysisVars>>

(* The caller is done with the result of the load. *)
load_done ==
    /\ loaded.outcome # "none"
    /\ loaded' = NoLoad
    /\ UNCHANGED <<now, trackers, execute_blocks_dir>>
    /\ UNCHANGED <<saverVars, execVars, filterVars, validatorVars, analysisVars>>

JournalNext ==
    \/ \E i \in TrackerIds : tracker_init(i)
    \/ clock_tick
    \/ \E i \in TrackerIds, result_length \in ResultLengths,
          outcome \in SaveOutcomes :
          tracker_track_execution(i, result_length, outcome)
    \/ \E i \in TrackerIds : tracker_clear(i)
    \/ \E name \in ForeignNames : foreign_file(name)
    \/ damage_file
    \/ \E i \in TrackerIds, filter_by_session \in BOOLEAN :
          load_execute_blocks_from_files(i, filter_by_session)
    \/ load_done

JournalSpecInit == Init /\ validator = FALSE

JournalSpec == JournalSpecInit /\ [][JournalNext]_vars

(* -------------------------------------------------------------------- *)
(* The two appliers of the import fixes as functions of the code: the   *)
(* code is drawn from the texts of at most MaxLines lines.              *)
(* -------------------------------------------------------------------- *)
FixArguments == UNION {[1..n -> CodeLines] : n \in 0..MaxLines}

OthersIdle ==
    /\ SaverInit /\ ExecInit /\ FilterIdle /\ ValidatorInit /\ JournalInit
    /\ validator = FALSE
    /\ ServiceIdle

OthersIdleForFix == OthersIdle /\ DepIdle /\ ParamIdle /\ RunIdle

FixInit ==
    /\ OthersIdleForFix
    /\ fix_code \in FixArguments
    /\ fix_result = NoFixResult

(* _apply_rule_based_fixes(code) *)
apply_rule_based_fixes_call ==
    /\ fix_result.by = NoneValue
    /\ \E fixes \in detect_alias_mismatches_ast(fix_code) :
          fix_result' = [by |-> "_apply_rule_based_fixes", fixes |-> fixes,
                         lines |-> apply_rule_based_fixes_lines(fix_code, fixes)]
    /\ UNCHANGED <<fix_code, saverVars, execVars, filterVars, validatorVars,
                   journalVars, depVars, paramVars, runVars, svcVars>>

(* _fix_import_aliases_simple(code, import_section) *)
fix_import_aliases_simple_call ==
    /\ fix_result.by = NoneValue
    /\ \E fixes \in detect_alias_mismatches_ast(fix_code) :
          fix_result' = [by |-> "_fix_import_aliases_simple", fixes |-> fixes,
                         lines |-> fix_import_aliases_simple(fix_code, fixes)]
    /\ UNCHANGED <<fix_code, saverVars, execVars, filterVars, validatorVars,
                   journalVars, depVars, paramVars, runVars, svcVars>>

FixNext ==
    \/ apply_rule_based_fixes_call
    \/ fix_import_aliases_simple_call

FixSpec == FixInit /\ [][FixNext]_vars

(* -------------------------------------------------------------------- *)
(* The dependency completion of _save_workflow_simple as a function of  *)
(* the executions.  A set is iterated in an order the program does not  *)
(* fix (string hashing), so each pass visits its names in any order.    *)
(* -------------------------------------------------------------------- *)
DepInit ==
    /\ OthersIdle
    /\ FixIdle
    /\ ParamIdle
    /\ RunIdle
    /\ simple_input \in SimpleInputs
    /\ completion = NoCompletion

DepFrame ==
    UNCHANGED <<simple_input, saverVars, execVars, filterVars, validatorVars,
                journalVars, fixVars, paramVars, runVars, svcVars>>

(* Steps 1 to 3.5 and the set-up of step 4. *)
analyse_variable_dependencies ==
    /\ completion.pc = "start"
    /\ LET defined == simple_input.successful.defines
           missing == expanded_missing(simple_input.failed, defined,
                                       simple_input.successful.uses \ defined)
       IN  completion' =
             [completion EXCEPT
                !.pc = IF missing = {} THEN "concatenate" ELSE "while",
                !.missing_variables = missing,
                !.defined_variables = defined,
                !.var_lookup_map = var_lookup_map(simple_input.failed),
                !.max_iterations = Len(simple_input.failed) * 2,
                !.remaining_missing = missing]
    /\ DepFrame

(* while remaining_missing and iteration < max_iterations *)
while_remaining_uncapped(c) == c.remaining_missing # {}

while_remaining(c) ==
    c.remaining_missing # {} /\ c.iteration < c.max_iterations

begin_pass ==
    /\ completion.pc = "while"
    /\ completion' =
         IF while_remaining(completion)
         THEN [completion EXCEPT !.pc = "for",
                                 !.iteration = @ + 1,
                                 !.newly_extracted = FALSE,
                                 !.to_visit = completion.remaining_missing]
         ELSE [completion EXCEPT !.pc = "concatenate",
                                 !.missing_variables = completion.remaining_missing]
    /\ DepFrame

(* for var_name in list(remaining_missing): one name of the pass *)
visit_variable ==
    /\ completion.pc = "for"
    /\ \E var_name \in completion.to_visit :
         LET entries == completion.var_lookup_map[var_name]
             k == first_satisfied(entries, completion.defined_variables)
         IN  completion' =
               IF k = 0
               THEN [completion EXCEPT !.to_visit = @ \ {var_name}]
               ELSE [completion EXCEPT
                       !.to_visit = @ \ {var_name},
                       !.dependency_code_blocks =
                           Append(@, [defines |-> {var_name},
                                      dependencies |-> entries[k].dependencies,
                                      extracted |-> TRUE]),
                       !.defined_variables = @ \cup {var_name},
                       !.remaining_missing = @ \ {var_name},
                       !.newly_extracted = TRUE,
                       !.var_lookup_map[var_name] = RemoveAt(@, k)]
    /\ DepFrame

(* if not newly_extracted: break *)
end_pass ==
    /\ completion.pc = "for"
    /\ completion.to_visit = {}
    /\ completion' =
         IF completion.newly_extracted
         THEN [completion EXCEPT !.pc = "while"]
         ELSE [completion EXCEPT !.pc = "concatenate",
                                 !.missing_variables = completion.remaining_missing]
    /\ DepFrame

(* Step 5: the extracted definitions first, then the successful code. *)
concatenate_code_blocks ==
    /\ completion.pc = "concatenate"
    /\ completion' =
         [completion EXCEPT
            !.pc = "done",
            !.code_blocks =
                completion.dependency_code_blocks
                \o <<[defines |-> simple_input.successful.defines,
                      dependencies |-> simple_input.successful.uses,
                      extracted |-> FALSE]>>]
    /\ DepFrame

DepNext ==
    \/ analyse_variable_dependencies
    \/ begin_pass
    \/ visit_variable
    \/ end_pass
    \/ concatenate_code_blocks

DepSpec == DepInit /\ [][DepNext]_vars

(* The loop is sequential code: every step that can be taken is taken. *)
DepLiveSpec == DepSpec /\ WF_vars(DepNext)

(* -------------------------------------------------------------------- *)
(* _parameterize_file_paths as a function of the code: at most          *)
(* MaxStatements read and write sites.                                  *)
(* -------------------------------------------------------------------- *)
ParamInit ==
    /\ OthersIdle
    /\ FixIdle
    /\ DepIdle
    /\ RunIdle
    /\ param_code \in ParamArguments
    /\ param_result = NoParamResult

parameterize_file_paths_call ==
    /\ param_result = NoParamResult
    /\ param_result' = parameterize_file_paths(param_code)
    /\ UNCHANGED <<param_code, saverVars, execVars, filterVars, validatorVars,
                   journalVars, fixVars, depVars, runVars, svcVars>>

ParamNext == parameterize_file_paths_call

ParamSpec == ParamInit /\ [][ParamNext]_vars

(* -------------------------------------------------------------------- *)
(* validate_workflow as a function of the files: the recorded inputs,   *)
(* the expected outputs, what the script wrote and its return code.     *)
(* -------------------------------------------------------------------- *)
RunInit ==
    /\ OthersIdle
    /\ FixIdle
    /\ DepIdle
    /\ ParamIdle
    /\ run_files \in RunFiles
    /\ run_verdict = NoVerdict

validate_files_call ==
    /\ ~run_verdict.called
    /\ run_verdict' = validate_files(run_files)
    /\ UNCHANGED <<run_files, saverVars, execVars, filterVars, validatorVars,
                   journalVars, fixVars, depVars, paramVars, svcVars>>

RunNext == validate_files_call

RunSpec == RunInit /\ [][RunNext]_vars

(* -------------------------------------------------------------------- *)
(* WorkflowService.save_workflow_from_execute_blocks on a directory     *)
(* that trackers of earlier sessions have written.                      *)
(* -------------------------------------------------------------------- *)
ServiceInit ==
    /\ SaverInit /\ ExecInit /\ FilterIdle /\ ValidatorInit /\ JournalInit
    /\ validator = FALSE
    /\ AnalysisIdle

(* The files load_execute_blocks_from_files keeps for a tracker whose   *)
(* session started at start.                                            *)
files_of_session(start, filter_by_session) ==
    {n \in DOMAIN execute_blocks_dir :
        filter_by_session =>
            is_file_from_current_session(n, session_start_str(start))}

StartArguments == {NoStart} \cup 0..MaxTicks

SynthesisOutcomes == {"None", "saved"}

(* The whole call: a fresh WorkflowTracker (session start: the argument *)
(* or the instant of construction), the load under the caller's filter, *)
(* then save_and_validate_workflow, whose save_workflow takes the       *)
(* tracker's in-memory history (empty) or else loads the files again    *)
(* with filter_by_session=True.                                         *)
save_workflow_from_execute_blocks ==
    /\ NoLoadRunning
    /\ ~service.called
    /\ \E session_start_time \in StartArguments, filter_by_session \in BOOLEAN,
          synthesis \in SynthesisOutcomes :
        LET start == IF session_start_time = NoStart THEN now
                     ELSE session_start_time
            loaded_blocks ==
                ReadBlocks(SortedNames(files_of_session(start, filter_by_session)))
            in_memory_history == <<>>
            saver_blocks == ReadBlocks(SortedNames(files_of_session(start, TRUE)))
            file_history == IF sort_raises(saver_blocks) THEN <<>>
                            ELSE restore_order(saver_blocks)
            execution_history == IF in_memory_history # <<>>
                                 THEN in_memory_history ELSE file_history
            call == [called |-> TRUE, filter_by_session |-> filter_by_session,
                     session_start_time |-> session_start_time,
                     outcome |-> "None", loaded |-> <<>>, used |-> <<>>]
        IN  service' =
              IF sort_raises(loaded_blocks)
              THEN [call EXCEPT !.outcome = "raised"]
              ELSE IF loaded_blocks = <<>>
              THEN call
              ELSE IF execution_history = <<>>
              THEN [call EXCEPT !.loaded = restore_order(loaded_blocks)]
              ELSE [call EXCEPT !.loaded = restore_order(loaded_blocks),
                                !.used = execution_history,
                                !.outcome = synthesis]
    /\ UNCHANGED <<saverVars, execVars, filterVars, validatorVars, journalVars,
                   fixVars, depVars, paramVars, runVars>>

ServiceNext ==
    \/ \E i \in TrackerIds : tracker_init(i)
    \/ clock_tick
    \/ \E i \in TrackerIds, result_length \in ResultLengths,
          outcome \in SaveOutcomes :
          tracker_track_execution(i, result_length, outcome)
    \/ save_workflow_from_execute_blocks

ServiceSpec == ServiceInit /\ [][ServiceNext]_vars

(* -------------------------------------------------------------------- *)
(* CodeFilter.filter_executions as a function of its argument: the      *)
(* argument is drawn from the lists of at most MaxFilterLen blocks.     *)
(* -------------------------------------------------------------------- *)
FilterArguments ==
    UNION {[1..n -> FilterInputs] : n \in 0..MaxFilterLen}

FilterInit ==
    /\ SaverInit
    /\ ExecInit
    /\ ValidatorInit
    /\ JournalInit
    /\ AnalysisIdle
    /\ filter_input \in FilterArguments
    /\ filter_output = NoneValue

filter_executions_call ==
    /\ filter_output = NoneValue
    /\ filter_output' = filter_executions(filter_input)
    /\ UNCHANGED <<filter_input, saverVars, execVars, validatorVars, journalVars,
                   analysisVars>>

FilterNext == filter_executions_call

FilterSpec == FilterInit /\ [][FilterNext]_vars

(* The steps of one save_and_validate_workflow call after its entry. *)
SaveCall ==
    \/ save_workflow_simple
    \/ save_workflow_notebook
    \/ save_workflow_llm
    \/ save_workflow_llm_attempt
    \/ validate_saved_workflow
    \/ rule_based_repair
    \/ llm_fix_attempt

(* ------------------------------------------------------------------ *)
(* Properties                                                           *)
(* ------------------------------------------------------------------ *)
FinalArtifactExists == \E f \in files : ~EndsWithTmp(f)

Returned == pc = "done"

EmittedAndRenamable == Returned /\ obs.emitted /\ ~obs.renameFailed

RepairStage == save_mode = "llm" /\ pc \in {"rule_fix", "llm_fix"}

RepairBudget ==
    IF pc = "rule_fix" THEN max_fix_attempts + 1
    ELSE max_fix_attempts - fix_attempt

C3_RepairBounds ==
    /\ save_mode = "llm" =>
          /\ obs.fixCalls <= max_fix_attempts
          /\ obs.validatorCalls <= 2 + obs.fixCalls
          /\ obs.validatorCalls <= 2 + max_fix_attempts
          /\ ~obs.calledAfterValid
          /\ obs.everValid => Returned
    /\ RepairStage => (RepairBudget >= 0 /\ ENABLED SaveCall)

C3_RepairStep ==
    RepairStage =>
        \/ pc' \in {"done", "raised"}
        \/ RepairStage' /\ RepairBudget' < RepairBudget

C3_BoundedRepairTerminates ==
    /\ []C3_RepairBounds
    /\ [][C3_RepairStep]_vars

(* C3 witness: an llm-mode call has used the rule-based repair and every *)
(* LLM repair, each with its re-validation, and has given up.            *)
C3_Witness ==
    /\ save_mode = "llm"
    /\ Returned
    /\ max_fix_attempts >= 1
    /\ obs.fixCalls = max_fix_attempts
    /\ obs.validatorCalls = 2 + max_fix_attempts
    /\ result = NoneValue

(* C4: simple and notebook mode never call fix_workflow_code, and        *)
(* notebook mode never calls the validator.                              *)
C4_NoRepairOutsideLlmMode ==
    /\ save_mode \in {"simple", "notebook"} => obs.fixCalls = 0
    /\ save_mode = "notebook" => obs.validatorCalls = 0

(* C4 witness: a simple-mode call has returned after a failed validation *)
(* of the saved artifact and of its rule-based repair.                   *)
C4_Witness ==
    /\ save_mode = "simple"
    /\ Returned
    /\ obs.validatorCalls = 2
    /\ ~obs.everValid

(* C5: one _save_workflow_llm run calls LLM extraction at most five      *)
(* times, never again after the first attempt that covers every expected *)
(* output, and then does not force any block in.                         *)
C5_ExtractionBounded ==
    /\ loopObs.llmCalls <= DEFAULT_MAX_RETRIES
    /\ ~loopObs.calledAfterCovered
    /\ loopObs.covered => ~loopObs.forced

(* C5 witness: the second attempt covered every expected output and the  *)
(* artifact was written.                                                 *)
C5_Witness ==
    /\ pc = "saved"
    /\ loopObs.covered
    /\ loopObs.llmCalls = 2
    /\ loopObs.missedSoFar # {}

(* C6: when the retries are exhausted with files still missing, forced   *)
(* inclusion splices in, for every missing file, the code of an entry    *)
(* whose output_files contain that file by basename.                     *)
C6_ForcedInclusionUsesProducer ==
    loopObs.forced =>
        \A f \in loopObs.forcedMissing :
            \E b \in loopObs.spliced : b.file = f /\ f \in b.outs

(* C7: on retry k >= 1 the missing list given to the LLM is the union of *)
(* the missing sets of attempts 0 .. k-1.                                *)
C7_CumulativeMissing ==
    loopObs.llmCalls >= 2 => loopObs.lastPassed = loopObs.missedBefore

(* C7 witness: a retry was given a file that the attempt just before it  *)
(* had covered but an earlier one had missed.                            *)
C7_Witness ==
    /\ loopObs.llmCalls >= 3
    /\ loopObs.lastPassed = loopObs.missedBefore
    /\ loopObs.prevMissing # loopObs.missedBefore

(* C8: an empty answer of the LLM on any attempt makes                   *)
(* _save_workflow_llm return None without writing an artifact.           *)
C8_EmptyCodeReturnsNone ==
    loopObs.emptySeen =>
        /\ Returned
        /\ result = NoneValue
        /\ files = {}

(* C8 witness: the empty answer came on a retry. *)
C8_Witness ==
    /\ loopObs.emptySeen
    /\ loopObs.llmCalls >= 2
    /\ Returned

(* C9: when the tracker reports no expected output at validation time,   *)
(* the validator is not invoked and the artifact is finalized.           *)
C9_NoExpectedOutputsFinalizes ==
    obs.noExpected =>
        /\ obs.validatorCalls = 0
        /\ Returned
        /\ ~obs.renameFailed =>
              (obs.finalized /\ FinalArtifactExists /\ result \in files
                 /\ ~EndsWithTmp(result))

(* C9 witness: outputs were recorded, none is left on disk, and the      *)
(* llm-mode artifact was finalized with a validator configured.          *)
C9_Witness ==
    /\ obs.noExpected
    /\ validator
    /\ save_mode = "llm"
    /\ all_output_files # {}
    /\ files = {FinalPath}

(* C10: when an interrupt() call that found a block executing returns    *)
(* True, that block's run call returns the interrupted sentinel.         *)
C10_InterruptedRunReturnsSentinel ==
    \A i \in 1..Len(intr.returned) :
        LET r == intr.returned[i]
        IN  (r.value /\ r.block <= Len(runner.results)) =>
                runner.results[r.block] = INTERRUPTED

HistoryChosen == pc \notin {"idle", "save_workflow"}

C18_NoExceptionEscapes == pc # "raised"

(* -------------------------------------------------------------------- *)
(* CodeFilter                                                           *)
(* -------------------------------------------------------------------- *)
HasOutputFiles(e) == e.output_files # {}
UsableWithOutputFiles(e) == e.success /\ ~e.blank /\ e.output_files # {}

CleanupWarnings == Len(validation_log)

(* C19: every validate_workflow call, whatever its outcome, removes the *)
(* temporary workspace before it returns; a failure to delete it is     *)
(* logged as a warning and never raised.                                *)
C19_TempWorkspaceRemoved ==
    /\ validation.pc = "return" =>
          /\ validation.result # NoResult
          /\ validation.cleanup \in {"removed", "failed"}
          /\ validation.cleanup = "removed" => temp_dir = "absent"
          /\ validation.cleanup = "failed" => CleanupWarnings > 0
    /\ validation.pc = "raised" =>
          /\ validation.cleanup = "none"
          /\ temp_dir = "absent"
    /\ temp_dir # "absent" /\ validation.pc \in {"idle", "return"} =>
          CleanupWarnings > 0

C19_Witness ==
    /\ validation.pc = "return"
    /\ validation.calls = 1
    /\ validation.result = InvalidResult("Validation error")
    /\ validation.cleanup = "removed"
    /\ temp_dir = "absent"
    /\ CleanupWarnings = 1

(* -------------------------------------------------------------------- *)
(* WorkflowTracker and its journal                                      *)
(* -------------------------------------------------------------------- *)
LoadReturned == loaded.outcome = "returned"
Loader == trackers[loaded.by]
get_execution_history(i) == trackers[i].execution_history
EntryId(e) == <<e.owner, e.n>>
Ids(entries) == [k \in DOMAIN entries |-> EntryId(entries[k])]
Range(seq) == {seq[k] : k \in DOMAIN seq}
PersistedHistory(i) ==
    [k \in DOMAIN get_execution_history(i) |->
        persisted(get_execution_history(i)[k])]
IntactFiles(names) ==
    {n \in names : execute_blocks_dir[n].kind = "block"}
InLoadedBlocks(e) == e \in Range(loaded.blocks)
InLoaderHistory(e) == e \in Range(PersistedHistory(loaded.by))

C12_SessionsDisjoint ==
    \A i \in TrackerIds :
        (/\ LoadReturned
         /\ loaded.filter_by_session
         /\ trackers[i].made
         /\ i # loaded.by)
        => {n \in IntactFiles(loaded.files) \cap FilesOfSession(i, TRUE) :
               HasParseableTimestamp(n)} = {}

(* C13: with filter_by_session=True no journal file written before the  *)
(* tracker's session_start_time is returned.                            *)
C13_NoFileFromBeforeSession ==
    (LoadReturned /\ loaded.filter_by_session) =>
        \A n \in IntactFiles(loaded.files) :
            HasParseableTimestamp(n) =>
                execute_blocks_dir[n].written >= Loader.session_start_time

(* C14: a journal file whose name carries no parseable YYYYMMDD_HHMMSS  *)
(* timestamp is included by the session filter.                         *)
C14_UnparseableNameIncluded ==
    (LoadReturned /\ loaded.filter_by_session) =>
        \A n \in DOMAIN execute_blocks_dir :
            ~HasParseableTimestamp(n) => n \in loaded.files

IsPrefix(a, b) == Len(a) <= Len(b) /\ SubSeq(b, 1, Len(a)) = a

(* C16 as stated: each track_execution adds exactly one entry at the    *)
(* end of the history and no operation removes, reorders or alters a    *)
(* recorded entry.                                                      *)
C16_AppendOnly ==
    [][\A i \in TrackerIds :
          /\ IsPrefix(get_execution_history(i), trackers'[i].execution_history)
          /\ Len(trackers'[i].execution_history)
                 = Len(get_execution_history(i))
                   + (trackers'[i].tracked - trackers[i].tracked)]_vars

(* C16 amended: each track_execution adds exactly one entry at the end  *)
(* of the in-memory history; no operation reorders or alters a recorded *)
(* entry; only clear() removes entries, and it removes all of them; no  *)
(* tracker operation removes a journal file.                            *)
C16_AppendOnlyUntilClear ==
    [][/\ \A i \in TrackerIds :
             LET before == get_execution_history(i)
                 after == trackers'[i].execution_history
                 calls == trackers'[i].tracked - trackers[i].tracked
             IN  \/ /\ calls = 0
                    /\ after = before
                 \/ /\ calls = 1
                    /\ Len(after) = Len(before) + 1
                    /\ IsPrefix(before, after)
                 \/ /\ calls = 0
                    /\ before # <<>>
                    /\ after = <<>>
       /\ DOMAIN execute_blocks_dir \subseteq DOMAIN execute_blocks_dir']_vars

C16_Witness ==
    \E i \in TrackerIds :
        /\ trackers[i].tracked = 2
        /\ Len(get_execution_history(i)) = 1
        /\ Cardinality(DOMAIN execute_blocks_dir) = 2

(* C17: load_execute_blocks_from_files never raises because of a        *)
(* partially written or corrupt journal file.                           *)
C17_LoadNeverRaises == loaded.outcome # "raised"

(* -------------------------------------------------------------------- *)
(* Executor: which run call an interrupt() reaches                      *)
(* -------------------------------------------------------------------- *)
ReportedInterrupted(k) ==
    runner.results[k] \in {INTERRUPTED_BEFORE_START, INTERRUPTED}

(* An interrupt() call that found run call k executing has set the flag. *)
InterruptAimedAt(k) ==
    \/ \E i \in 1..Len(intr.returned) : intr.returned[i].block = k
    \/ intr.pc = "stop" /\ intr.seen = k

(* C25: an interrupt() call affects only the block that was executing   *)
(* when it was called: a run call is refused or reported as interrupted *)
(* only if some interrupt() call found that very run call executing.    *)
C25_NoStaleInterrupt ==
    \A k \in 1..Len(runner.results) :
        ReportedInterrupted(k) => InterruptAimedAt(k)

(* C26: interrupt() returns True exactly when a block was executing at  *)
(* the time of the call; a call that returned False has not set the     *)
(* interrupt flag.                                                      *)
C26_FalseMeansFlagNotSet ==
    \A i \in 1..Len(intr.returned) :
        intr.returned[i].value <=> intr.returned[i].block # 0

(* -------------------------------------------------------------------- *)
(* AST-driven import fixes                                              *)
(* -------------------------------------------------------------------- *)
FixApplied == fix_result.by # NoneValue
NotImportLine(line) == ~IsImportLine(line)
Replacements == {k \in DOMAIN fix_result.fixes : fix_result.fixes[k][2] >= 0}
Additions == {k \in DOMAIN fix_result.fixes : fix_result.fixes[k][2] = -1}

(* C21: when the fixes are applied, each replacement lands on the       *)
(* import line it was computed for, the new imports are inserted, and   *)
(* no line that is not a targeted import is modified: the lines that    *)
(* are no imports come out as they went in, and one line is added for   *)
(* each new import.                                                     *)
C21_OnlyTargetedImportsChange ==
    FixApplied =>
        /\ SelectSeq(fix_result.lines, NotImportLine)
               = SelectSeq(fix_code, NotImportLine)
        /\ Len(fix_result.lines) = Len(fix_code) + Cardinality(Additions)

(* Every use of a name follows an import that binds the name to what    *)
(* the use needs, and no later import rebinds it before the use.        *)
ImportsCorrect(lines) ==
    \A k \in DOMAIN lines : \A name \in UsedNames(lines[k]) :
        LET before == {j \in 1..(k - 1) :
                          /\ IsImportLine(lines[j])
                          /\ ImportAlias(lines[j]) = name}
        IN  /\ before # {}
            /\ ImportModule(lines[CHOOSE j \in before : \A i \in before : i <= j])
                   = NeededModule(name)

(* C23: applied to code whose imports are already correct, the          *)
(* reconciliation returns the code unchanged.                           *)
C23_CorrectCodeUnchanged ==
    (FixApplied /\ ImportsCorrect(fix_code)) => fix_result.lines = fix_code

(* -------------------------------------------------------------------- *)
(* Dependency completion of simple mode *)
(* -------------------------------------------------------------------- *)
CompletionDone == completion.pc = "done"

(* The names that some order of extraction can define: the names the    *)
(* successful code defines, closed under "has an assignment in a failed *)
(* block whose dependencies are all in the set".                        *)
RECURSIVE satisfiable(_, _)
satisfiable(failed, defined) ==
    LET more == {v \in VariableNames \ defined :
                    \E i \in 1..Len(failed) :
                        /\ failed[i][v].assigned
                        /\ failed[i][v].dependencies \subseteq defined}
    IN  IF more = {} THEN defined ELSE satisfiable(failed, defined \cup more)

Satisfiable == satisfiable(simple_input.failed, simple_input.successful.defines)

(* The used-but-undefined names and the dependencies step 3.5 adds. *)
Needed ==
    expanded_missing(simple_input.failed, simple_input.successful.defines,
                     simple_input.successful.uses \ simple_input.successful.defines)

ExtractedNames ==
    UNION {completion.code_blocks[k].defines :
              k \in {j \in 1..Len(completion.code_blocks) :
                        completion.code_blocks[j].extracted}}

(* C22: the dependency completion of simple mode always terminates; it  *)
(* makes at most 2 x (number of failed blocks) extraction passes, and   *)
(* the missing variables whose dependencies are cyclic are given up:    *)
(* they stay in the unsatisfied set and no definition of them is in the *)
(* emitted code.                                                        *)
C22_CompletionTerminates ==
    /\ [](completion.iteration <= 2 * Len(simple_input.failed))
    /\ <>CompletionDone
    /\ [](CompletionDone =>
            /\ (Needed \ Satisfiable) \subseteq completion.missing_variables
            /\ ExtractedNames \cap completion.missing_variables = {})

(* A run that ended with a variable given up because it depends on      *)
(* itself through the assignments of the failed block, after at least   *)
(* one pass.                                                            *)
C22_Witness ==
    /\ CompletionDone
    /\ completion.iteration >= 1
    /\ \E v \in completion.missing_variables :
          /\ failed_var_definitions(simple_input.failed, v).assigned
          /\ v \notin Satisfiable

(* C29: when every variable the included blocks use without defining    *)
(* it, and every dependency of those, can be defined from the failed    *)
(* blocks (no cycle, no dependency without an assignment), the          *)
(* completion extracts a definition for each of them, whatever the      *)
(* order in which a pass visits the missing variables.                  *)
C29_ExtractsEverySatisfiableVariable ==
    (CompletionDone /\ Needed \subseteq Satisfiable)
        => completion.missing_variables = {}

(* C30: in the emitted code every definition extracted from a failed    *)
(* block comes after a block that defines each variable it depends on,  *)
(* dependencies defined only by successful blocks included.             *)
C30_ExtractedAfterDependencies ==
    CompletionDone =>
        \A i \in 1..Len(completion.code_blocks) :
            completion.code_blocks[i].extracted =>
                \A d \in completion.code_blocks[i].dependencies :
                    \E j \in 1..(i - 1) : d \in completion.code_blocks[j].defines

(* -------------------------------------------------------------------- *)
(* Parameterization of file paths *)
(* -------------------------------------------------------------------- *)
Parameterized == param_result # NoParamResult

(* The code of a session whose single successful block reads            *)
(* "input.csv" and writes "filtered.csv".                               *)
FilterSessionCode ==
    <<[op |-> "read_csv", path |-> InputCsv],
      [op |-> "to_csv", path |-> FilteredCsv]>>

(* C24: for the block that reads "input.csv" and writes "filtered.csv"  *)
(* the script declares --input-input and --output-dir, its read uses    *)
(* the variable input_input, and its write goes to                      *)
(* os.path.join(output_dir, "filtered.csv").                            *)
C24_FilterSessionScript ==
    (Parameterized /\ param_code = FilterSessionCode) =>
        /\ {"--input-input", "--output-dir"} \subseteq param_result.argparse.declares
        /\ param_result.sites[1].via = "input_input"
        /\ param_result.sites[2] =
               [op |-> "to_csv", via |-> "output_dir", path |-> FilteredCsv]

(* -------------------------------------------------------------------- *)
(* Validation of a file that is both input and output *)
(* -------------------------------------------------------------------- *)
RegeneratedIdentically ==
    /\ run_files.returncode = 0
    /\ \A f \in ExpectedNames(run_files) :
          run_files.written[f] = run_files.expected_output_files[f]

(* C27: a run that ended normally and wrote every expected output with  *)
(* the expected content is reported valid, also when an expected        *)
(* output is at the same time a recorded input.                         *)
C27_IdenticalRegenerationIsValid ==
    (run_verdict.called /\ RegeneratedIdentically) => run_verdict.valid

(* -------------------------------------------------------------------- *)
(* The service facade over the journal *)
(* -------------------------------------------------------------------- *)
(* C28: save_workflow_from_execute_blocks synthesizes from exactly the  *)
(* blocks it loaded under the caller's filter_by_session and            *)
(* session_start_time; with filter_by_session=False the journal files   *)
(* written before the call are used, not discarded.                     *)
C28_SynthesizesFromLoadedBlocks ==
    (service.called /\ service.loaded # <<>>) => service.used = service.loaded

====
